---- MODULE Spec2Model ----
(***************************************************************************)
(* Model of the request-routing and render-orchestration core of           *)
(* satset-react: route matching (router/file-system.ts), locale stripping, *)
(* the compilation cache and the per-request dispatch pipeline of the dev  *)
(* server (server/dev.ts), the request context (server/storage) and the    *)
(* response writer (server/response.ts).                                   *)
(*                                                                         *)
(* Strings are modelled as sequences of one-character strings, so that     *)
(* split, join, startsWith, slice and the regular expressions of the code  *)
(* are computed character by character as the code computes them.          *)
(***************************************************************************)
EXTENDS Integers, Sequences, FiniteSets, TLC

VARIABLES
    (* harness of the pure functions (matchRoute, stripLocaleFromPath) *)
    fnInput,      \* the arguments the function is applied to
    fnOutput,     \* the value it returned, or that it was not called yet
    (* file system and compilation cache *)
    fsMTime,      \* file -> modification time, 0 for a file that does not exist
    clock,        \* the current time
    compiledFrom, \* artifact -> the source its content was compiled from
    lastResolve,  \* what the last resolution of a module did
    (* dev server: startDevServer's closure and the requests in flight *)
    routes,       \* the page table the request handler reads
    apiRoutes,    \* the API table the request handler reads
    scans,        \* discovery passes run since the server started
    currentRequestCookies,  \* the module-level cookie store of response.ts
    requestContext,         \* AsyncLocalStorage: execution context -> store
    req           \* request -> its handler's local state and what it did

fnVars == <<fnInput, fnOutput>>
cacheVars == <<fsMTime, clock, compiledFrom, lastResolve>>
serverVars == <<routes, apiRoutes, scans, currentRequestCookies, requestContext, req>>
vars == <<fnInput, fnOutput, fsMTime, clock, compiledFrom, lastResolve,
          routes, apiRoutes, scans, currentRequestCookies, requestContext, req>>

\* the parts of the state a specification of one component leaves alone
IdleFn == fnInput = [fn |-> "none"] /\ fnOutput = [kind |-> "notcalled"]
IdleCache ==
    fsMTime = <<>> /\ clock = 0 /\ compiledFrom = <<>> /\ lastResolve = [kind |-> "none"]
IdleServer ==
    /\ routes = <<>> /\ apiRoutes = <<>> /\ scans = 0
    /\ currentRequestCookies = <<>> /\ requestContext = <<>> /\ req = <<>>

(***************************************************************************)
(* Characters and strings                                                  *)
(***************************************************************************)
LowerLetters ==
    {"a","b","c","d","e","f","g","h","i","j","k","l","m",
     "n","o","p","q","r","s","t","u","v","w","x","y","z"}

UpperLetters ==
    {"A","B","C","D","E","F","G","H","I","J","K","L","M",
     "N","O","P","Q","R","S","T","U","V","W","X","Y","Z"}

Letters == LowerLetters \cup UpperLetters

Digits == {"0","1","2","3","4","5","6","7","8","9"}

\* JavaScript's undefined: a value no string equals
Undefined == <<"#undefined">>

\* s.startsWith(p)
StartsWith(s, p) ==
    /\ Len(p) <= Len(s)
    /\ SubSeq(s, 1, Len(p)) = p

\* s.includes(c) for a one-character c
Includes(s, c) == \E i \in 1..Len(s) : s[i] = c

\* s.slice(n): s without its first n characters
Slice(s, n) == SubSeq(s, n + 1, Len(s))

\* s.split(c)[0]: the part of s before the first c
RECURSIVE SplitFirst(_, _)
SplitFirst(s, c) ==
    IF s = <<>> \/ Head(s) = c
    THEN <<>>
    ELSE <<Head(s)>> \o SplitFirst(Tail(s), c)

\* s.split(c): every piece between separators, empty pieces included
RECURSIVE Split(_, _)
Split(s, c) ==
    LET first == SplitFirst(s, c)
    IN  IF Len(first) = Len(s)
        THEN <<first>>
        ELSE <<first>> \o Split(Slice(s, Len(first) + 1), c)

\* pieces.filter(Boolean): the non-empty pieces
RECURSIVE FilterBoolean(_)
FilterBoolean(pieces) ==
    IF pieces = <<>>
    THEN <<>>
    ELSE IF Head(pieces) = <<>>
         THEN FilterBoolean(Tail(pieces))
         ELSE <<Head(pieces)>> \o FilterBoolean(Tail(pieces))

\* pieces.join(c)
RECURSIVE Join(_, _)
Join(pieces, c) ==
    IF pieces = <<>>
    THEN <<>>
    ELSE IF Len(pieces) = 1
         THEN pieces[1]
         ELSE pieces[1] \o <<c>> \o Join(Tail(pieces), c)

\* array[i] with a 0-based index: undefined outside the array
At(array, i) == IF i >= 0 /\ i < Len(array) THEN array[i + 1] ELSE Undefined

\* array.slice(n) with a 0-based start
ArraySlice(array, n) == SubSeq(array, n + 1, Len(array))

(***************************************************************************)
(* Route matcher (router/file-system.ts)                                   *)
(***************************************************************************)
\* A Route of the table.  The optional booleans of the interface are read
\* by truthiness in matchRoute, so an absent field is FALSE.
Route(path, component, exact, dynamic, catchAllOptional) ==
    [path |-> path, component |-> component, exact |-> exact,
     dynamic |-> dynamic, catchAllOptional |-> catchAllOptional]

\* params[name] = value on a Record<string, string>: a set of <<name, value>>
\* pairs with one pair per name, the later assignment replacing the earlier
SetParam(params, name, value) ==
    {p \in params : p[1] # name} \cup {<<name, value>>}

\* routeSegments.findIndex(s => s.startsWith('*')), 0-based, -1 when none
FindCatchAllIndex(routeSegments) ==
    IF \E i \in 1..Len(routeSegments) : StartsWith(routeSegments[i], <<"*">>)
    THEN (CHOOSE i \in 1..Len(routeSegments) :
            /\ StartsWith(routeSegments[i], <<"*">>)
            /\ \A j \in 1..(i - 1) : ~StartsWith(routeSegments[j], <<"*">>)) - 1
    ELSE -1

\* What matchDynamicRoute and matchRoute return: null, a value, or a TypeError
\* thrown on the way
NoMatch == [kind |-> "null"]
Thrown == [kind |-> "TypeError"]
Params(params) == [kind |-> "params", params |-> params]
Matched(i, route, params) ==
    [kind |-> "match", index |-> i, route |-> route, params |-> params]

\* the loop over the segments of a route without catch-all, from 0-based
\* index i on: null at the first literal segment that differs
RECURSIVE BindSegments(_, _, _, _)
BindSegments(routeSegments, pathSegments, i, params) ==
    IF i >= Len(routeSegments)
    THEN Params(params)
    ELSE LET routeSegment == routeSegments[i + 1]
             pathSegment == At(pathSegments, i)
         IN  IF StartsWith(routeSegment, <<":">>)
             THEN BindSegments(routeSegments, pathSegments, i + 1,
                               SetParam(params, Slice(routeSegment, 1), pathSegment))
             ELSE IF routeSegment # pathSegment
                  THEN NoMatch
                  ELSE BindSegments(routeSegments, pathSegments, i + 1, params)

\* MatchCatchAll without the check of the segments before the catch-all
MatchCatchAllNoPrefixCheck(pathSegments, routeSegments, catchAllOptional) ==
    LET catchAllIndex == FindCatchAllIndex(routeSegments)
    IN  IF catchAllIndex = -1
        THEN [kind |-> "TypeError"]
        ELSE LET raw == Slice(routeSegments[catchAllIndex + 1], 1)
                 paramName == IF StartsWith(raw, <<"?">>) THEN Slice(raw, 1) ELSE raw
             IN  [kind |-> "params",
                  params |-> SetParam({}, paramName,
                                Join(ArraySlice(pathSegments, catchAllIndex), "/"))]

\* MatchCatchAll refusing a required catch-all that is left without segments
MatchCatchAllNeedsTail(pathSegments, routeSegments, catchAllOptional) ==
    LET catchAllIndex == FindCatchAllIndex(routeSegments)
    IN  IF \E i \in 0..(catchAllIndex - 1) :
               At(pathSegments, i) # At(routeSegments, i)
        THEN NoMatch
        ELSE IF catchAllIndex = -1
             THEN Thrown
             ELSE LET raw == Slice(routeSegments[catchAllIndex + 1], 1)
                      paramName == IF StartsWith(raw, <<"?">>)
                                   THEN Slice(raw, 1) ELSE raw
                  IN  IF Len(pathSegments) <= catchAllIndex
                      THEN IF catchAllOptional
                           THEN Params(SetParam({}, paramName, <<>>))
                           ELSE NoMatch
                      ELSE Params(SetParam({}, paramName,
                               Join(ArraySlice(pathSegments, catchAllIndex), "/")))

\* the catch-all branch of matchDynamicRoute; a routePath that holds '*' with
\* no segment starting with it gives catchAllIndex = -1 and the TypeError of
\* routeSegments[-1].slice
MatchCatchAll(pathSegments, routeSegments, catchAllOptional) ==
    LET catchAllIndex == FindCatchAllIndex(routeSegments)
    IN  IF \E i \in 0..(catchAllIndex - 1) :
               At(pathSegments, i) # At(routeSegments, i)
        THEN NoMatch
        ELSE IF catchAllIndex = -1
             THEN Thrown
             ELSE LET raw == Slice(routeSegments[catchAllIndex + 1], 1)
                      paramName == IF StartsWith(raw, <<"?">>)
                                   THEN Slice(raw, 1) ELSE raw
                  IN  IF Len(pathSegments) <= catchAllIndex /\ catchAllOptional
                      THEN Params(SetParam({}, paramName, <<>>))
                      ELSE Params(SetParam({}, paramName,
                               Join(ArraySlice(pathSegments, catchAllIndex), "/")))

\* matchDynamicRoute(pathname, routePath, catchAllOptional)
MatchDynamicRoute(pathname, routePath, catchAllOptional) ==
    LET pathSegments == FilterBoolean(Split(pathname, "/"))
        routeSegments == FilterBoolean(Split(routePath, "/"))
    IN  IF Includes(routePath, "*")
        THEN MatchCatchAll(pathSegments, routeSegments, catchAllOptional)
        ELSE IF Len(pathSegments) # Len(routeSegments)
             THEN NoMatch
             ELSE BindSegments(routeSegments, pathSegments, 0, {})

\* the body of matchRoute's loop for the route at 1-based position i
MatchOne(pathname, table, i) ==
    LET route == table[i]
    IN  IF route.dynamic
        THEN LET match == MatchDynamicRoute(pathname, route.path, route.catchAllOptional)
             IN  IF match.kind = "params"
                 THEN Matched(i, route, match.params)
                 ELSE match
        ELSE IF route.exact
             THEN IF pathname = route.path
                  THEN Matched(i, route, {})
                  ELSE NoMatch
             ELSE IF StartsWith(pathname, route.path)
                  THEN Matched(i, route, {})
                  ELSE NoMatch

\* matchRoute's loop keeping the last route that matches instead of the first
RECURSIVE MatchRouteLastWins(_, _, _)
MatchRouteLastWins(pathname, table, i) ==
    IF i > Len(table)
    THEN [kind |-> "null"]
    ELSE LET later == MatchRouteLastWins(pathname, table, i + 1)
         IN  IF later.kind # "null" THEN later ELSE MatchOne(pathname, table, i)

\* matchRoute's loop from position i on: the first route that matches
RECURSIVE MatchRouteFrom(_, _, _)
MatchRouteFrom(pathname, table, i) ==
    IF i > Len(table)
    THEN NoMatch
    ELSE LET m == MatchOne(pathname, table, i)
         IN  IF m.kind # "null" THEN m ELSE MatchRouteFrom(pathname, table, i + 1)

\* matchRoute(pathname, routes)
MatchRoute(pathname, table) == MatchRouteFrom(pathname, table, 1)

(***************************************************************************)
(* Locale prefix (server/dev.ts)                                           *)
(***************************************************************************)
\* /^[a-zA-Z]{2}(?:-[a-zA-Z]{2})?$/.test(s)
IsLocaleToken(s) ==
    \/ Len(s) = 2 /\ s[1] \in Letters /\ s[2] \in Letters
    \/ /\ Len(s) = 5
       /\ s[1] \in Letters /\ s[2] \in Letters
       /\ s[3] = "-"
       /\ s[4] \in Letters /\ s[5] \in Letters

\* stripLocaleFromPath(pathname)
StripLocaleFromPath(pathname) ==
    IF pathname = <<>>
    THEN <<"/">>
    ELSE LET raw == SplitFirst(SplitFirst(pathname, "?"), "#")
             segments == FilterBoolean(Split(raw, "/"))
         IN  IF Len(segments) = 0
             THEN <<"/">>
             ELSE IF IsLocaleToken(segments[1])
                  THEN LET rest == ArraySlice(segments, 1)
                       IN  IF Len(rest) # 0
                           THEN <<"/">> \o Join(rest, "/")
                           ELSE <<"/">>
                  ELSE IF StartsWith(raw, <<"/">>) THEN raw ELSE <<"/">> \o raw

(***************************************************************************)
(* Inputs of the pure functions                                            *)
(***************************************************************************)
\* longest segment list of an input path, longest route table
MaxSegs == 3
MaxRoutes == 2

\* all sequences over S of length at most n
SeqsUpTo(S, n) == UNION {[1..k -> S] : k \in 0..n}

\* a request path written from its segments: '/a/b', '/a/b/', '//a//b', 'a/b'
\* and '/a/b?q'
RenderPath(segs, style) ==
    CASE style = "plain"    -> IF segs = <<>> THEN <<"/">> ELSE <<"/">> \o Join(segs, "/")
      [] style = "trailing" -> <<"/">> \o Join(segs, "/") \o <<"/">>
      [] style = "doubled"  -> <<"/">> \o Join([i \in 1..Len(segs) |-> <<"/">> \o segs[i]], "/")
      [] style = "relative" -> Join(segs, "/")
      [] style = "query"    -> <<"/">> \o Join(segs, "/") \o <<"?","q">>

PathsOver(pool, styles) ==
    {RenderPath(segs, style) : segs \in SeqsUpTo(pool, MaxSegs), style \in styles}

MatchSegPool == {<<"b","l","o","g">>, <<"f","e","a","t","u","r","e","d">>, <<"d","o","c","s">>, <<"a">>, <<"a","p","i">>}
MatchPaths ==
    PathsOver(MatchSegPool, {"plain", "trailing", "doubled"})
        \cup {<<"/","d","o","c","s","/","a","/","b","/","c">>, <<"/","b","l","o","g","/","F","e","a","t","u","r","e","d">>}

LocaleSegPool == {<<"e","n">>, <<"i","d">>, <<"e","n","-","U","S">>, <<"a","b","o","u","t">>}
LocalePaths ==
    PathsOver(LocaleSegPool, {"plain", "trailing", "doubled", "relative", "query"})

\* routes as discovery writes them: a dynamic page, a static page, a required
\* and an optional catch-all page, a static API route (no 'exact' field) and
\* a dynamic API route
RoutePool ==
    { Route(<<"/","b","l","o","g","/",":","s","l","u","g">>, <<"s","r","c","/","a","p","p","/","b","l","o","g","/","[","s","l","u","g","]","/","p","a","g","e",".","t","s","x">>, FALSE, TRUE, FALSE),
      Route(<<"/","b","l","o","g","/","f","e","a","t","u","r","e","d">>, <<"s","r","c","/","a","p","p","/","b","l","o","g","/","f","e","a","t","u","r","e","d","/","p","a","g","e",".","t","s","x">>, TRUE, FALSE, FALSE),
      Route(<<"/","d","o","c","s","/","*","p","a","t","h">>, <<"s","r","c","/","a","p","p","/","d","o","c","s","/","[",".",".",".","p","a","t","h","]","/","p","a","g","e",".","t","s","x">>, FALSE, TRUE, FALSE),
      Route(<<"/","d","o","c","s","/","*","p","a","t","h">>, <<"s","r","c","/","a","p","p","/","d","o","c","s","/","[","[",".",".",".","p","a","t","h","]","]","/","p","a","g","e",".","t","s","x">>, FALSE, TRUE, TRUE),
      Route(<<"/","a","p","i","/","d","o","c","s">>, <<"s","r","c","/","a","p","p","/","a","p","i","/","d","o","c","s","/","r","o","u","t","e",".","t","s">>, FALSE, FALSE, FALSE),
      Route(<<"/","a","p","i","/",":","a">>, <<"s","r","c","/","a","p","p","/","a","p","i","/","[","a","]","/","r","o","u","t","e",".","t","s">>, FALSE, TRUE, FALSE) }

\* the tables: sequences of distinct routes, in any order
RouteTables ==
    {t \in SeqsUpTo(RoutePool, MaxRoutes) :
        \A i, j \in 1..Len(t) : i # j => t[i] # t[j]}

(***************************************************************************)
(* The functions applied to their inputs                                   *)
(***************************************************************************)
InitFn ==
    /\ fnInput \in
          [fn : {"matchRoute"}, pathname : MatchPaths, routes : RouteTables]
          \cup [fn : {"stripLocaleFromPath"}, pathname : LocalePaths, stripped : {FALSE}]
    /\ fnOutput = [kind |-> "notcalled"]
    /\ IdleCache /\ IdleServer

\* matchRoute(pathname, routes)
CallMatchRoute ==
    /\ fnInput.fn = "matchRoute"
    /\ fnOutput.kind = "notcalled"
    /\ fnOutput' = MatchRoute(fnInput.pathname, fnInput.routes)
    /\ UNCHANGED <<fnInput, cacheVars, serverVars>>

\* stripLocaleFromPath(pathname)
CallStripLocale ==
    /\ fnInput.fn = "stripLocaleFromPath"
    /\ fnOutput.kind = "notcalled"
    /\ fnOutput' = [kind |-> "string", value |-> StripLocaleFromPath(fnInput.pathname)]
    /\ UNCHANGED <<fnInput, cacheVars, serverVars>>

\* the stripped path is passed to stripLocaleFromPath again
StripAgain ==
    /\ fnInput.fn = "stripLocaleFromPath"
    /\ fnOutput.kind = "string"
    /\ ~fnInput.stripped
    /\ fnInput' = [fn |-> "stripLocaleFromPath", pathname |-> fnOutput.value,
                   stripped |-> TRUE]
    /\ fnOutput' = [kind |-> "notcalled"]
    /\ UNCHANGED <<cacheVars, serverVars>>

NextFn == CallMatchRoute \/ CallStripLocale \/ StripAgain

SpecFn == InitFn /\ [][NextFn]_vars

(***************************************************************************)
(* Claims about the route matcher and the locale prefix                    *)
(***************************************************************************)
MatchCalled == fnInput.fn = "matchRoute" /\ fnOutput.kind # "notcalled"

\* the segments of a path or pattern: its non-empty '/'-separated pieces
Segments(p) == FilterBoolean(Split(p, "/"))

BlogDynamicFirst ==
    << Route(<<"/","b","l","o","g","/",":","s","l","u","g">>, <<"s","r","c","/","a","p","p","/","b","l","o","g","/","[","s","l","u","g","]","/","p","a","g","e",".","t","s","x">>, FALSE, TRUE, FALSE),
       Route(<<"/","b","l","o","g","/","f","e","a","t","u","r","e","d">>, <<"s","r","c","/","a","p","p","/","b","l","o","g","/","f","e","a","t","u","r","e","d","/","p","a","g","e",".","t","s","x">>, TRUE, FALSE, FALSE) >>

\* C2: matchRoute returns the lowest-index route of the table that matches the
\* pathname: no route before the returned one matches, null is returned only
\* when no route matches, and with '/blog/:slug' registered before
\* '/blog/featured' the path '/blog/featured' matches the first (dynamic)
\* route with slug = 'featured'.
C2_FirstMatchWins ==
    MatchCalled =>
        /\ fnOutput.kind = "match" =>
              /\ MatchOne(fnInput.pathname, fnInput.routes, fnOutput.index).kind = "match"
              /\ fnOutput.route = fnInput.routes[fnOutput.index]
              /\ \A j \in 1..(fnOutput.index - 1) :
                    MatchOne(fnInput.pathname, fnInput.routes, j).kind = "null"
        /\ fnOutput.kind = "null" =>
              \A j \in 1..Len(fnInput.routes) :
                    MatchOne(fnInput.pathname, fnInput.routes, j).kind = "null"
        /\ (fnInput.routes = BlogDynamicFirst /\ fnInput.pathname = <<"/","b","l","o","g","/","f","e","a","t","u","r","e","d">>) =>
              /\ fnOutput.kind = "match"
              /\ fnOutput.index = 1
              /\ fnOutput.params = {<<<<"s","l","u","g">>, <<"f","e","a","t","u","r","e","d">>>>}

\* C2 witness: '/blog/featured' was matched against the table that registers
\* '/blog/:slug' first, where both routes fit the path
C2_Witness ==
    /\ MatchCalled
    /\ fnInput.routes = BlogDynamicFirst
    /\ fnInput.pathname = <<"/","b","l","o","g","/","f","e","a","t","u","r","e","d">>
    /\ MatchOne(fnInput.pathname, fnInput.routes, 2).kind = "match"
    /\ fnOutput.kind = "match"

\* C9 (as claimed): stripLocaleFromPath applied to a path it returned gives
\* that path back.
C9_StripIdempotent ==
    (/\ fnInput.fn = "stripLocaleFromPath"
     /\ fnInput.stripped
     /\ fnOutput.kind = "string") => fnOutput.value = fnInput.pathname

\* C10: when matchRoute matches a catch-all route, the path's segments before
\* the catch-all position equal the pattern's, and the catch-all parameter
\* is bound to the remaining path segments joined by '/'; '/docs/*path'
\* against '/docs/a/b/c' gives path = 'a/b/c'.
C10_CatchAllBinding ==
    (MatchCalled /\ fnOutput.kind = "match" /\ Includes(fnOutput.route.path, "*")) =>
        LET pat == Segments(fnOutput.route.path)
            segs == Segments(fnInput.pathname)
            k == Len(pat) - 1
        IN  /\ Len(segs) >= k
            /\ SubSeq(segs, 1, k) = SubSeq(pat, 1, k)
            /\ fnOutput.params =
                  {<<Slice(pat[Len(pat)], 1), Join(SubSeq(segs, k + 1, Len(segs)), "/")>>}
            /\ (fnOutput.route.path = <<"/","d","o","c","s","/","*","p","a","t","h">> /\ fnInput.pathname = <<"/","d","o","c","s","/","a","/","b","/","c">>)
                  => fnOutput.params = {<<<<"p","a","t","h">>, <<"a","/","b","/","c">>>>}

\* C10 witness: '/docs/a/b/c' matched the catch-all route '/docs/*path'
C10_Witness ==
    /\ MatchCalled
    /\ fnInput.pathname = <<"/","d","o","c","s","/","a","/","b","/","c">>
    /\ fnOutput.kind = "match"
    /\ fnOutput.route.path = <<"/","d","o","c","s","/","*","p","a","t","h">>

(***************************************************************************)
(* Compiled-artifact paths (server/dev.ts)                                 *)
(***************************************************************************)
\* the project root and its artifact directory .satset/temp
Root == <<"/","w">>
TempDir == Root \o <<"/",".","s","a","t","s","e","t","/","t","e","m","p">>

\* s with every character c replaced by f[c] (a global single-character replace)
MapChars(s, f(_)) == [i \in 1..Len(s) |-> f(s[i])]

\* 1-based position of the last c in s, 0 when there is none
LastIndexOf(s, c) ==
    IF Includes(s, c)
    THEN CHOOSE i \in 1..Len(s) : s[i] = c /\ \A j \in (i + 1)..Len(s) : s[j] # c
    ELSE 0

\* path.basename(p)
Basename(p) == Slice(p, LastIndexOf(p, "/"))

\* path.dirname(p)
Dirname(p) ==
    LET i == LastIndexOf(p, "/")
    IN  IF i <= 1 THEN <<"/">> ELSE SubSeq(p, 1, i - 1)

\* s.replace(/\.[^.]+$/, ''): s without its last extension
StripExtension(s) ==
    LET i == LastIndexOf(s, ".")
    IN  IF i = 0 \/ i = Len(s) THEN s ELSE SubSeq(s, 1, i - 1)

\* path.relative(root, file) for a file under root
Relative(root, file) ==
    IF StartsWith(file, root \o <<"/">>) THEN Slice(file, Len(root) + 1) ELSE file

\* path.join(dir, name)
PathJoin(dir, name) == dir \o <<"/">> \o name

\* .replace(/\\/g, '/')
BackslashToSlash(c) == IF c = "\\" THEN "/" ELSE c

\* .replace(/[^a-zA-Z0-9_-]/g, '_')
SafeKeyChar(c) == IF c \in Letters \cup Digits \cup {"_", "-"} THEN c ELSE "_"

\* compiledApiPath of handleApiRoute
ApiArtifactPath(component) ==
    LET relComponentPath ==
            StripExtension(MapChars(Relative(Root, component), BackslashToSlash))
        safeComponentKey == MapChars(relComponentPath, SafeKeyChar)
    IN  PathJoin(TempDir, safeComponentKey \o <<".","a","p","i",".","s","e","r","v","e","r",".","j","s">>)

\* compiledServerPath of handlePageRoute
PageArtifactPath(component) ==
    PathJoin(TempDir, StripExtension(Basename(component)) \o <<".","s","e","r","v","e","r",".","j","s">>)

\* the first 8 hex digits of md5(layoutFile); the digest is not computed:
\* it is a value that differs for different files
Md5Hex8(file) == <<"#md5">> \o file

\* layoutCompiled of handlePageRoute
LayoutArtifactPath(layoutFile) ==
    PathJoin(TempDir, StripExtension(Basename(layoutFile)) \o <<".">>
                        \o Md5Hex8(layoutFile) \o <<".","l","a","y","o","u","t",".","s","e","r","v","e","r",".","j","s">>)

\* compiledPath of runMiddleware
MiddlewareArtifactPath(srcPath) ==
    PathJoin(TempDir, StripExtension(Basename(srcPath)) \o <<".","m","i","d","d","l","e","w","a","r","e",".","s","e","r","v","e","r",".","j","s">>)

\* the artifact a module of the given kind is compiled to
ArtifactPath(kind, source) ==
    CASE kind = "api"        -> ApiArtifactPath(source)
      [] kind = "page"       -> PageArtifactPath(source)
      [] kind = "layout"     -> LayoutArtifactPath(source)
      [] kind = "middleware" -> MiddlewareArtifactPath(source)

(***************************************************************************)
(* Compilation cache (server/dev.ts)                                       *)
(***************************************************************************)
\* the latest time of the file system's clock
MaxClock == 3

\* the modules the dispatcher resolves: two pages named page.tsx in different
\* directories, two API handlers named route.ts, a layout and the middleware
CacheModules ==
    { [kind |-> "page", source |-> <<"/","w","/","s","r","c","/","a","p","p","/","p","a","g","e",".","t","s","x">>],
      [kind |-> "page", source |-> <<"/","w","/","s","r","c","/","a","p","p","/","b","l","o","g","/","p","a","g","e",".","t","s","x">>],
      [kind |-> "api", source |-> <<"/","w","/","s","r","c","/","a","p","p","/","a","p","i","/","u","s","e","r","s","/","r","o","u","t","e",".","t","s">>],
      [kind |-> "api", source |-> <<"/","w","/","s","r","c","/","a","p","p","/","a","p","i","/","p","o","s","t","s","/","r","o","u","t","e",".","t","s">>],
      [kind |-> "layout", source |-> <<"/","w","/","s","r","c","/","a","p","p","/","l","a","y","o","u","t",".","t","s","x">>],
      [kind |-> "middleware", source |-> <<"/","w","/","m","i","d","d","l","e","w","a","r","e",".","t","s">>] }

\* the projects: the module files one project holds
Projects == {{m1, m2} : m1, m2 \in CacheModules}

SourceFiles(project) == {m.source : m \in project}
ArtifactFiles == {ArtifactPath(m.kind, m.source) : m \in CacheModules}
NoSource == <<"#none">>

\* the modules of the project the file system holds
ProjectModules == {m \in CacheModules : m.source \in DOMAIN fsMTime}

\* fs.existsSync(file)
ExistsSync(fs, file) == fs[file] # 0

\* the test of handleApiRoute: the artifact exists and
\* outStat.mtimeMs >= srcStat.mtimeMs
ArtifactFresh(fs, source, artifact) ==
    ExistsSync(fs, artifact) /\ fs[artifact] >= fs[source]

\* needsBundle: handleApiRoute compares modification times; handlePageRoute,
\* the layout loop and runMiddleware call the bundler on every request
NeedsBundle(kind, fs, source, artifact) ==
    IF kind = "api" THEN ~ArtifactFresh(fs, source, artifact) ELSE TRUE

\* safeBundleApi, safeBundleServer and safeBundle retry after ENOSPC; the
\* layout loop calls bundler.bundleServer directly
HasLowDiskRetry(kind) == kind \in {"api", "page", "middleware"}

\* fs.rmSync(tempDir, { recursive, force }); fs.mkdirSync(tempDir)
WipeTempDir(f) == [file \in DOMAIN f |-> IF file \in ArtifactFiles THEN 0 ELSE f[file]]
WipeProvenance(f) == [file \in DOMAIN f |-> NoSource]

\* startDevServer removes .satset: no artifact exists when serving starts
InitCache ==
    /\ clock = 1
    /\ \E project \in Projects :
          LET artifacts == {ArtifactPath(m.kind, m.source) : m \in project}
          IN  /\ fsMTime = [file \in SourceFiles(project) \cup artifacts |->
                               IF file \in artifacts THEN 0 ELSE 1]
              /\ compiledFrom = [file \in artifacts |-> NoSource]
    /\ lastResolve = [kind |-> "none"]
    /\ IdleFn /\ IdleServer

\* time passes
Tick ==
    /\ clock < MaxClock
    /\ clock' = clock + 1
    /\ UNCHANGED <<fsMTime, compiledFrom, lastResolve, fnVars, serverVars>>

\* the developer saves a source file
EditSource(m) ==
    /\ fsMTime[m.source] < clock
    /\ fsMTime' = [fsMTime EXCEPT ![m.source] = clock]
    /\ UNCHANGED <<clock, compiledFrom, lastResolve, fnVars, serverVars>>

\* One resolution of module m to its artifact, as each handler does it before
\* requiring the module.  first and second are the outcomes of the (up to
\* two) bundler.bundleServer calls: "ok", "ENOSPC" or "error".
Resolve(m, first, second) ==
    LET artifact == ArtifactPath(m.kind, m.source)
        fresh == ArtifactFresh(fsMTime, m.source, artifact)
        needsBundle == NeedsBundle(m.kind, fsMTime, m.source, artifact)
        retried == needsBundle /\ first = "ENOSPC" /\ HasLowDiskRetry(m.kind)
        ok == ~needsBundle \/ first = "ok" \/ (retried /\ second = "ok")
        fsWiped == IF retried THEN WipeTempDir(fsMTime) ELSE fsMTime
        fromWiped == IF retried THEN WipeProvenance(compiledFrom) ELSE compiledFrom
    IN  /\ (~retried) => second = "ok"
        /\ (~needsBundle) => first = "ok"
        /\ fsMTime' = IF needsBundle /\ ok
                      THEN [fsWiped EXCEPT ![artifact] = clock]
                      ELSE fsWiped
        /\ compiledFrom' = IF needsBundle /\ ok
                           THEN [fromWiped EXCEPT ![artifact] = m.source]
                           ELSE fromWiped
        /\ lastResolve' =
              [kind |-> m.kind, source |-> m.source, artifact |-> artifact,
               fresh |-> fresh, first |-> first, second |-> second,
               compilerCalls |-> IF ~needsBundle THEN 0 ELSE IF retried THEN 2 ELSE 1,
               wiped |-> retried,
               replaced |-> compiledFrom[artifact],
               ok |-> ok]
        /\ UNCHANGED <<clock, fnVars, serverVars>>

NextCache ==
    \/ Tick
    \/ \E m \in ProjectModules : EditSource(m)
    \/ \E m \in ProjectModules, first \in {"ok", "ENOSPC", "error"},
          second \in {"ok", "error"} : Resolve(m, first, second)

SpecCache == InitCache /\ [][NextCache]_vars

(***************************************************************************)
(* Claims about the compilation cache                                      *)
(***************************************************************************)
\* C5 (as claimed): for every module kind, resolving a module whose artifact
\* exists with a modification time equal to or newer than the source's does
\* not invoke the compiler.
C5_FreshArtifactNotRecompiled ==
    (lastResolve.kind # "none" /\ lastResolve.fresh) => lastResolve.compilerCalls = 0

\* C6 (as claimed): two distinct source files never map to the same artifact
\* path, so no resolution finds at its artifact path a module compiled from
\* another source.
C6_ArtifactPathInjective ==
    lastResolve.kind # "none" =>
        /\ \A m \in ProjectModules :
              m.source # lastResolve.source =>
                  ArtifactPath(m.kind, m.source) # lastResolve.artifact
        /\ lastResolve.replaced \in {NoSource, lastResolve.source}

(***************************************************************************)
(* Dev server (server/dev.ts): the request handler of startDevServer, the  *)
(* API and page handlers, the middleware stage and the re-discovery        *)
(* callback.  A handler advances one step per await; requests and the      *)
(* callback interleave only between steps.  The asset endpoints answered   *)
(* before the middleware stage (bundles, public files, sitemap, robots,    *)
(* server actions) are not part of the model.                              *)
(***************************************************************************)
Reqs == {"r1", "r2"}
MaxScans == 2

PageAbout == Route(<<"/","a","b","o","u","t">>, <<"/","w","/","s","r","c","/","a","p","p","/","a","b","o","u","t","/","p","a","g","e",".","t","s","x">>, TRUE, FALSE, FALSE)
PageBlogSlug == Route(<<"/","b","l","o","g","/",":","s","l","u","g">>, <<"/","w","/","s","r","c","/","a","p","p","/","b","l","o","g","/","[","s","l","u","g","]","/","p","a","g","e",".","t","s","x">>, FALSE, TRUE, FALSE)
PageCatchAll == Route(<<"/","*","a","l","l">>, <<"/","w","/","s","r","c","/","a","p","p","/","[",".",".",".","a","l","l","]","/","p","a","g","e",".","t","s","x">>, FALSE, TRUE, FALSE)
PageNotFoundFile == Route(<<"/","n","o","t","-","f","o","u","n","d">>, <<"/","w","/","s","r","c","/","a","p","p","/","n","o","t","-","f","o","u","n","d",".","t","s","x">>, TRUE, FALSE, FALSE)
PagesAbout == Route(<<"/","a","b","o","u","t">>, <<"/","w","/","s","r","c","/","p","a","g","e","s","/","a","b","o","u","t",".","t","s","x">>, TRUE, FALSE, FALSE)
PagesError == Route(<<"/","e","r","r","o","r">>, <<"/","w","/","s","r","c","/","p","a","g","e","s","/","e","r","r","o","r",".","t","s","x">>, TRUE, FALSE, FALSE)
Pages500 == Route(<<"/","5","0","0">>, <<"/","w","/","s","r","c","/","p","a","g","e","s","/","5","0","0",".","t","s","x">>, TRUE, FALSE, FALSE)
ApiUsers == Route(<<"/","a","p","i","/","u","s","e","r","s">>, <<"/","w","/","s","r","c","/","a","p","p","/","a","p","i","/","u","s","e","r","s","/","r","o","u","t","e",".","t","s">>, FALSE, FALSE, FALSE)
ApiPostsId == Route(<<"/","a","p","i","/","p","o","s","t","s","/",":","i","d">>, <<"/","w","/","s","r","c","/","a","p","p","/","a","p","i","/","p","o","s","t","s","/","[","i","d","]","/","r","o","u","t","e",".","t","s">>, FALSE, TRUE, FALSE)

\* what getRoutes(root) returns for three states of the project's files: two
\* with an app directory, one with a pages directory
Discoveries ==
    { [routes |-> <<PageAbout, PageBlogSlug, PageNotFoundFile>>, apiRoutes |-> <<ApiUsers>>],
      [routes |-> <<PageCatchAll>>, apiRoutes |-> <<ApiPostsId, ApiUsers>>],
      [routes |-> <<PagesAbout, Pages500, PagesError>>, apiRoutes |-> <<>>] }

\* req.url of the requests, and the values of the SATSET_LANG cookie and of
\* the accept-language header that come with them
RequestUrls ==
    { <<"/","a","b","o","u","t">>, <<"/","e","n","/","a","b","o","u","t">>, <<"/","b","l","o","g","/","h","e","l","l","o">>, <<"/","m","i","s","s","i","n","g">>,
      <<"/","a","p","i","/","u","s","e","r","s">>, <<"/","a","p","i","/","m","i","s","s","i","n","g">>, <<"/","i","d","/","a","p","i","/","m","i","s","s","i","n","g">>, <<"/","a","p","i","/","p","o","s","t","s","/","7">>, <<"/","a","p","i">> }
CoreUrls == { <<"/","a","b","o","u","t">>, <<"/","e","n","/","a","b","o","u","t">>, <<"/","a","p","i","/","u","s","e","r","s">> }
CookieLangs == { Undefined, <<>>, <<"i","d">> }
AcceptLanguages == { Undefined, <<" ","f","r","-","F","R",",","f","r",";","q","=","0",".","9">>, <<"f","r","a">>, <<"*">> }

NoRoute == [path |-> <<"#none">>]
NoStore == [owner |-> "#none"]
NotRead == [owner |-> "#notread"]
NoResponse == [sent |-> FALSE]
NoError == [kind |-> "none"]

\* accept.trim()
RECURSIVE Trim(_)
Trim(s) ==
    IF s # <<>> /\ s[1] = " " THEN Trim(Tail(s))
    ELSE IF s # <<>> /\ s[Len(s)] = " " THEN Trim(SubSeq(s, 1, Len(s) - 1))
    ELSE s

\* accept.match(/^[a-zA-Z]{2}(?:-[a-zA-Z]{2})?/): the matched prefix, or
\* Undefined when there is none
MatchLocalePrefix(accept) ==
    IF Len(accept) >= 2 /\ accept[1] \in Letters /\ accept[2] \in Letters
    THEN IF Len(accept) >= 5 /\ accept[3] = "-"
            /\ accept[4] \in Letters /\ accept[5] \in Letters
         THEN SubSeq(accept, 1, 5)
         ELSE SubSeq(accept, 1, 2)
    ELSE Undefined

\* the locale detection with the cookie tried before the path
DetectLocaleCookieFirst(rawPath, cookieLang, acceptLanguage) ==
    IF cookieLang # Undefined /\ cookieLang # <<>>
    THEN [locale |-> cookieLang, effectivePath |-> rawPath]
    ELSE [locale |-> <<"e","n","-","U","S">>, effectivePath |-> rawPath]


\* the locale detection of the request handler: locale and effectivePath
DetectLocale(rawPath, cookieLang, acceptLanguage) ==
    LET segments == FilterBoolean(Split(rawPath, "/"))
        firstSegment == At(segments, 0)
    IN  IF firstSegment # Undefined /\ IsLocaleToken(firstSegment)
        THEN [locale |-> firstSegment, effectivePath |-> StripLocaleFromPath(rawPath)]
        ELSE IF cookieLang # Undefined /\ cookieLang # <<>>
             THEN [locale |-> cookieLang, effectivePath |-> rawPath]
             ELSE IF acceptLanguage # Undefined /\ acceptLanguage # <<>>
                  THEN LET accept == Trim(Split(acceptLanguage, ",")[1])
                           match == MatchLocalePrefix(accept)
                       IN  [locale |-> IF match # Undefined THEN match ELSE <<"e","n","-","U","S">>,
                            effectivePath |-> rawPath]
                  ELSE [locale |-> <<"e","n","-","U","S">>, effectivePath |-> rawPath]

\* routes.find(r => r.path === '/404') alone
FindNotFoundRouteOnly404(table) ==
    IF \E i \in 1..Len(table) : table[i].path = <<"/","4","0","4">>
    THEN table[CHOOSE i \in 1..Len(table) : table[i].path = <<"/","4","0","4">>]
    ELSE NoRoute


\* routes.find(r => r.path === '/404') || routes.find(r => r.path === '/not-found')
FindNotFoundRoute(table) ==
    IF \E i \in 1..Len(table) : table[i].path = <<"/","4","0","4">>
    THEN table[CHOOSE i \in 1..Len(table) :
                  /\ table[i].path = <<"/","4","0","4">>
                  /\ \A j \in 1..(i - 1) : table[j].path # <<"/","4","0","4">>]
    ELSE IF \E i \in 1..Len(table) : table[i].path = <<"/","n","o","t","-","f","o","u","n","d">>
         THEN table[CHOOSE i \in 1..Len(table) :
                       /\ table[i].path = <<"/","n","o","t","-","f","o","u","n","d">>
                       /\ \A j \in 1..(i - 1) : table[j].path # <<"/","n","o","t","-","f","o","u","n","d">>]
         ELSE NoRoute

Target(handler, route, params, pageMatched) ==
    [handler |-> handler, route |-> route, params |-> params, pageMatched |-> pageMatched]

\* the dispatcher once the page table is matched against: the matched page,
\* else the project's not-found page, else the literal 404.  A TypeError out
\* of matchRoute rejects the handler's promise: "crash".
RouteToPage(matched, notFoundRoute) ==
    IF matched.kind = "TypeError"
    THEN Target("crash", NoRoute, {}, TRUE)
    ELSE IF matched.kind = "match"
    THEN Target("page", matched.route, matched.params, TRUE)
    ELSE IF notFoundRoute # NoRoute
    THEN Target("page", notFoundRoute, {}, TRUE)
    ELSE Target("404", NoRoute, {}, TRUE)

\* the dispatcher after the API match, without the '/api/' test
RouteAfterApiFallThrough(effectivePath, apiMatch, pageTable) ==
    IF apiMatch.kind = "TypeError"
    THEN Target("crash", NoRoute, {}, FALSE)
    ELSE IF apiMatch.kind = "match"
    THEN Target("api", apiMatch.route, apiMatch.params, FALSE)
    ELSE RouteToPage(MatchRoute(effectivePath, pageTable), FindNotFoundRoute(pageTable))

\* the dispatcher trying the page table before the API match is looked at
RouteAfterApiPagesFirst(effectivePath, apiMatch, pageTable) ==
    IF MatchRoute(effectivePath, pageTable).kind = "match"
    THEN RouteToPage(MatchRoute(effectivePath, pageTable), FindNotFoundRoute(pageTable))
    ELSE IF apiMatch.kind = "match"
    THEN Target("api", apiMatch.route, apiMatch.params, TRUE)
    ELSE RouteToPage(MatchRoute(effectivePath, pageTable), FindNotFoundRoute(pageTable))


\* the dispatcher after the API match: the API handler, the 404 of the API
\* namespace, or on to the page table
RouteAfterApi(effectivePath, apiMatch, pageTable) ==
    IF apiMatch.kind = "TypeError"
    THEN Target("crash", NoRoute, {}, FALSE)
    ELSE IF apiMatch.kind = "match"
    THEN Target("api", apiMatch.route, apiMatch.params, FALSE)
    ELSE IF StartsWith(effectivePath, <<"/","a","p","i","/">>)
    THEN Target("api404", NoRoute, {}, FALSE)
    ELSE RouteToPage(MatchRoute(effectivePath, pageTable), FindNotFoundRoute(pageTable))

\* the dispatcher: which handler the request goes to, with which route and
\* params, and whether the page table was matched against on the way
RouteRequest(effectivePath, apiTable, pageTable) ==
    RouteAfterApi(effectivePath, MatchRoute(effectivePath, apiTable), pageTable)

\* url.split('?')[0].split('#')[0] || '/'
RawPath(url) ==
    LET path == Split(Split(url, "?")[1], "#")[1]
    IN  IF path = <<>> THEN <<"/">> ELSE path

\* what a response object carries when it is sent: the arguments of
\* res.writeHead and the kind of body given to res.end
Response(status, location, body) ==
    [sent |-> TRUE, status |-> status, location |-> location, body |-> body]

\* new SatsetResponse(body, { status, headers })
SatsetResponse(body, status, location, rewrite) ==
    [body |-> body, status |-> status, location |-> location, rewrite |-> rewrite]

\* SatsetResponse.redirect(url, status)
SatsetResponseRedirect(url, status) == SatsetResponse("null", status, url, FALSE)

\* sendSatsetResponse(res, satRes): a truthy Location ends the response
\* without a body, whatever body the object holds
SendSatsetResponse(satRes) ==
    LET status == IF satRes.status # 0 THEN satRes.status ELSE 200
    IN  IF satRes.location # Undefined /\ satRes.location # <<>>
        THEN Response(status, satRes.location, "none")
        ELSE IF satRes.body = "null"
             THEN Response(status, Undefined, "none")
             ELSE Response(status, Undefined, satRes.body)

\* a request before it arrives: the locals of its handlers and the record of
\* what they did
NewRequest ==
    [ pc |-> "new", url |-> <<>>, cookieLang |-> Undefined,
      acceptLanguage |-> Undefined, locale |-> <<>>, effectivePath |-> <<>>,
      handler |-> "none", route |-> NoRoute, params |-> {}, allRoutes |-> <<>>,
      pageMatched |-> FALSE, apiTableOf |-> -1, pageTableOf |-> -1,
      ctxRead |-> NotRead, isPageAsync |-> FALSE, thrown |-> NoError,
      renderCalls |-> 0, statusCode |-> 200, pageHTML |-> "none",
      errorLogged |-> FALSE, bundle |-> "none", required |-> FALSE,
      stages |-> <<>>, middleware |-> "none",
      errorRoute |-> NoRoute.path, renderable |-> {},
      apiModule |-> [loaded |-> FALSE, hasDefault |-> FALSE, hasMethod |-> FALSE],
      invoked |-> "none",
      apiCall |-> [called |-> FALSE, nodeStyle |-> FALSE, writes |-> FALSE,
                   result |-> "none"],
      response |-> NoResponse ]

\* one store slot for the whole process instead of one per call chain
StoreKeyShared(r) == "r1"

\* the execution context whose store requestContext.getStore() returns to the
\* code of request r: AsyncLocalStorage keeps one per asynchronous call chain
StoreKey(r) == r

\* the object given to requestContext.run for request r
Store(r, rec, params) ==
    [owner |-> r, locale |-> rec.locale, dictionaries |-> "dictionaries",
     params |-> params, pathname |-> rec.url]

\* the request enters a stage of the pipeline: the project's middleware
\* function, the matching of the route tables, an API handler function or
\* the body of a page component is invoked
Staged(rec, stage) == [rec EXCEPT !.stages = Append(@, stage)]

\* the request handler after runMiddleware returned false
MiddlewarePassedRerun(rec) == [rec EXCEPT !.pc = "middleware"]
MiddlewarePassed(rec) == [rec EXCEPT !.pc = "dispatch"]

\* the handler of request r returns: its response, if any, has been sent
Finish(rec, response) == [rec EXCEPT !.pc = "done", !.response = response]

InitServer ==
    /\ \E scanned \in Discoveries :
          /\ routes = [pass |-> 0, list |-> scanned.routes]
          /\ apiRoutes = [pass |-> 0, list |-> scanned.apiRoutes]
    /\ scans = 0
    /\ currentRequestCookies = [owner |-> "#none"]
    /\ requestContext = [k \in Reqs |-> NoStore]
    /\ req = [r \in Reqs |-> NewRequest]
    /\ IdleFn /\ IdleCache

\* the re-discovery callback of startHMR: both tables are assigned before the
\* callback's first await.  pass is the number of the discovery pass that
\* built the table.
HmrRescanTorn(scanned) ==
    /\ scans < MaxScans
    /\ scans' = scans + 1
    /\ routes' = [pass |-> scans + 1, list |-> scanned.routes]
    /\ UNCHANGED <<apiRoutes, currentRequestCookies, requestContext, req, fnVars, cacheVars>>

HmrRescan(scanned) ==
    /\ scans < MaxScans
    /\ scans' = scans + 1
    /\ routes' = [pass |-> scans + 1, list |-> scanned.routes]
    /\ apiRoutes' = [pass |-> scans + 1, list |-> scanned.apiRoutes]
    /\ UNCHANGED <<currentRequestCookies, requestContext, req, fnVars, cacheVars>>

\* the request handler up to its first await: cookies, rawPath, locale
Arrive(r, url, cookieLang, acceptLanguage) ==
    /\ req[r].pc = "new"
    /\ LET detected == DetectLocale(RawPath(url), cookieLang, acceptLanguage)
       IN  req' = [req EXCEPT ![r] =
                     [@ EXCEPT !.pc = "middleware", !.url = url,
                               !.cookieLang = cookieLang,
                               !.acceptLanguage = acceptLanguage,
                               !.locale = detected.locale,
                               !.effectivePath = detected.effectivePath]]
    /\ currentRequestCookies' = [owner |-> r]
    /\ UNCHANGED <<routes, apiRoutes, scans, requestContext, fnVars, cacheVars>>

\* what the project's middleware does with a request: there is no middleware
\* file, the module exports no function, bundling or the function throws (an
\* error, or null or undefined), or the function returns a value
MiddlewareOutcomes ==
    { [kind |-> "absent"], [kind |-> "nofn"],
      [kind |-> "throws", nullish |-> FALSE], [kind |-> "throws", nullish |-> TRUE],
      [kind |-> "returns", result |-> SatsetResponse("null", 204, Undefined, FALSE)],
      [kind |-> "returns", result |-> SatsetResponse("null", 204, Undefined, TRUE)],
      [kind |-> "returns", result |-> SatsetResponse("null", 307, <<"/","l","o","g","i","n">>, FALSE)],
      [kind |-> "returns", result |-> SatsetResponse("text", 403, Undefined, FALSE)],
      [kind |-> "returns", result |-> [body |-> "#notaresponse"]] }
CoreMiddlewareOutcomes ==
    { [kind |-> "absent"],
      [kind |-> "returns", result |-> SatsetResponse("null", 204, Undefined, FALSE)] }

\* runMiddleware and the test of its result in the request handler.  The
\* middleware function runs outside requestContext.run.  The catch clause
\* that sends the overlay reads err.stack: on a thrown null or undefined that
\* is a TypeError, which the outer catch clause turns into `return false`.
RunMiddleware(r, outcome) ==
    /\ req[r].pc = "middleware"
    /\ LET rec == IF outcome.kind \in {"throws", "returns"}
                  THEN Staged([req[r] EXCEPT !.ctxRead = requestContext[StoreKey(r)]],
                              "MIDDLEWARE")
                  ELSE req[r]
           isResponse == outcome.kind = "returns" /\ outcome.result.body # "#notaresponse"
           isNext == /\ isResponse
                     /\ outcome.result.status = 204
                     /\ outcome.result.location \in {Undefined, <<>>}
                     /\ ~outcome.result.rewrite
                     /\ outcome.result.body = "null"
       IN  req' = [req EXCEPT ![r] =
                     IF outcome.kind = "throws"
                     THEN IF outcome.nullish
                          THEN MiddlewarePassed([rec EXCEPT !.middleware = "threw"])
                          ELSE Finish([rec EXCEPT !.middleware = "threw"],
                                      Response(500, Undefined, "overlay"))
                     ELSE IF isResponse /\ ~isNext
                     THEN Finish([rec EXCEPT !.middleware = "responded"],
                                 SendSatsetResponse(outcome.result))
                     ELSE MiddlewarePassed([rec EXCEPT !.middleware = "passed"])]
    /\ UNCHANGED <<routes, apiRoutes, scans, currentRequestCookies, requestContext, fnVars, cacheVars>>

\* the request goes where the dispatcher sends it: handleApiRoute and
\* handlePageRoute run to their first await inside requestContext.run
EnterHandler(r, target, rec) ==
    /\ req' = [req EXCEPT ![r] =
          CASE target.handler = "api" -> [rec EXCEPT !.pc = "api"]
            [] target.handler = "page" ->
                 [rec EXCEPT !.pc = "pageCompile", !.allRoutes = routes.list]
            [] target.handler = "api404" ->
                 Finish(rec, Response(404, Undefined, "json"))
            [] target.handler = "404" ->
                 Finish(rec, Response(404, Undefined, "literal404"))
            [] OTHER -> Finish(rec, NoResponse)]
    /\ requestContext' =
          IF target.handler \in {"api", "page"}
          THEN [requestContext EXCEPT ![StoreKey(r)] = Store(r, req[r], target.params)]
          ELSE requestContext

\* what the dispatcher leaves in the request: the target, and the discovery
\* passes of the tables it matched against
Routed(r, target) ==
    [Staged(req[r], "ROUTE_MATCH") EXCEPT
                   !.handler = target.handler,
                   !.route = target.route,
                   !.params = target.params,
                   !.pageMatched = target.pageMatched,
                   !.apiTableOf = apiRoutes.pass,
                   !.pageTableOf = IF target.pageMatched THEN routes.pass ELSE -1]

DispatchTo(r, target) == EnterHandler(r, target, Routed(r, target))

\* the dispatcher: both tables are read and the handler is entered without an
\* await in between
Dispatch(r) ==
    /\ req[r].pc = "dispatch"
    /\ DispatchTo(r, RouteRequest(req[r].effectivePath, apiRoutes.list, routes.list))
    /\ UNCHANGED <<routes, apiRoutes, scans, currentRequestCookies, fnVars, cacheVars>>

\* JavaScript values of the fields the handlers test with typeof
Undef == [t |-> "undefined"]
Num(n) == [t |-> "number", v |-> n]
Str(s) == [t |-> "string", v |-> s]

\* what an API module exports and what its handler does when called:
\* bundles: bundling and require succeed; hasDefault: a default export
\* function; hasMethod: an export named as the request's method; nodeStyle:
\* the chosen function declares two parameters or more (fn.length >= 2);
\* writes: the function writes the response to res itself, which only a
\* function that is handed res can do, and then returns undefined; result:
\* it throws, or returns a SatsetResponse, an object with a numeric status,
\* headers and a json function ("responseJson"), such an object without
\* json and text functions ("responseBare"), another object, a string, null
\* or undefined
ApiResults ==
    {"throws", "satset", "responseJson", "responseBare", "object", "string", "null",
     "undefined"}
ApiBehaviours ==
    { b \in [ bundles : BOOLEAN, hasDefault : BOOLEAN, hasMethod : BOOLEAN,
              nodeStyle : BOOLEAN, writes : BOOLEAN, result : ApiResults ] :
        b.writes => (b.nodeStyle /\ b.result = "undefined") }
CoreApiBehaviours ==
    [ bundles : {TRUE}, hasDefault : {FALSE}, hasMethod : {TRUE}, nodeStyle : {FALSE},
      writes : {FALSE}, result : {"object", "throws"} ]

\* resolveHandler and the two tests of handlerObj: the export that is
\* called.  A module with a default export function resolves to that export
\* alone, whatever else it exports.
InvokedExport(behaviour) ==
    IF behaviour.hasDefault THEN "default"
    ELSE IF behaviour.hasMethod THEN "method"
    ELSE "none"

\* the module required by handleApiRoute and the export it called
Loaded(rec, behaviour) ==
    [rec EXCEPT !.apiModule = [loaded |-> TRUE, hasDefault |-> behaviour.hasDefault,
                               hasMethod |-> behaviour.hasMethod],
                !.invoked = InvokedExport(behaviour),
                !.apiCall = [called |-> InvokedExport(behaviour) # "none",
                             nodeStyle |-> behaviour.nodeStyle,
                             writes |-> behaviour.writes,
                             result |-> behaviour.result]]

\* the SatsetResponse a handler returns, and the status of the
\* response-shaped objects it returns
HandlerSatsetResponse == SatsetResponse("text", 201, Undefined, FALSE)
ResponseLikeStatus == 202

\* callHandlerWithWebStyle(fn) and, when it returns false, the 204 of its
\* caller: what is sent for the value the function returned
WebStyleResponse(result) ==
    CASE result = "satset" -> SendSatsetResponse(HandlerSatsetResponse)
      [] result = "responseJson" -> Response(ResponseLikeStatus, Undefined, "json")
      [] result \in {"responseBare", "object"} ->
            SendSatsetResponse(SatsetResponse("json", 200, Undefined, FALSE))
      [] result = "string" -> Response(200, Undefined, "text")
      [] OTHER -> Response(204, Undefined, "none")

\* callHandlerWithNodeStyle(fn) for a function of two parameters or more: a
\* SatsetResponse it returns is sent, any other value is dropped, and the
\* call counts as having handled the response
NodeStyleResponse(behaviour) ==
    IF behaviour.result = "satset"
    THEN SendSatsetResponse(HandlerSatsetResponse)
    ELSE IF behaviour.writes
    THEN Response(200, Undefined, "handler")
    ELSE NoResponse

\* the response of handleApiRoute once the module is loaded
ApiResponse(behaviour) ==
    IF ~behaviour.hasDefault /\ ~behaviour.hasMethod
    THEN Response(405, Undefined, "json")
    ELSE IF behaviour.result = "throws"
    THEN Response(500, Undefined, "json")
    ELSE IF behaviour.nodeStyle
    THEN NodeStyleResponse(behaviour)
    ELSE WebStyleResponse(behaviour.result)

\* handleApiRoute after its first await: load the module, pick and call the
\* handler, answer.  The handler's code runs inside requestContext.run.
HandleApiRoute(r, behaviour) ==
    /\ req[r].pc = "api"
    /\ LET called == behaviour.bundles /\ (behaviour.hasDefault \/ behaviour.hasMethod)
           rec == IF called
                  THEN Staged([req[r] EXCEPT !.ctxRead = requestContext[StoreKey(r)]],
                              "HANDLE")
                  ELSE req[r]
       IN  req' = [req EXCEPT ![r] =
                     IF ~behaviour.bundles
                     THEN Finish(rec, Response(500, Undefined, "json"))
                     ELSE Finish(Loaded(rec, behaviour), ApiResponse(behaviour))]
    /\ requestContext' = [requestContext EXCEPT ![StoreKey(r)] = NoStore]
    /\ UNCHANGED <<routes, apiRoutes, scans, currentRequestCookies, fnVars, cacheVars>>

\* what a page throws: the signal of redirect(url, status), the signal of
\* notFound(), or another error with its statusCode, status and code fields
RedirectSignal(url, status) == [kind |-> "redirect", url |-> url, status |-> status]
NotFoundSignal == [kind |-> "notFound"]
Err(statusCode, status, code) ==
    [kind |-> "error", statusCode |-> statusCode, status |-> status, code |-> code]

RedirectSignals ==
    { RedirectSignal(<<"/","l","o","g","i","n">>, Num(307)), RedirectSignal(<<"/","l","o","g","i","n">>, Num(301)),
      RedirectSignal(<<>>, Num(307)), RedirectSignal(<<"/","l","o","g","i","n">>, Num(0)),
      RedirectSignal(<<"/","l","o","g","i","n">>, Undef), RedirectSignal(Undefined, Num(308)) }
ErrorValues ==
    { Err(Undef, Undef, Undef), Err(Num(404), Undef, Undef), Err(Undef, Num(503), Undef),
      Err(Undef, Undef, Num(403)), Err(Undef, Undef, Str(<<"E","N","O","E","N","T">>)),
      Err(Num(200), Undef, Undef), Err(Str(<<"4","0","4">>), Num(404), Undef) }

\* what a page component is and does when called
PageBehaviours ==
    [ isAsync : BOOLEAN,
      result : {[kind |-> "returns"], NotFoundSignal} \cup RedirectSignals \cup ErrorValues ]
CorePageBehaviours ==
    [ isAsync : BOOLEAN,
      result : {[kind |-> "returns"], RedirectSignal(<<"/","l","o","g","i","n">>, Num(307)),
                NotFoundSignal, Err(Undef, Undef, Undef)} ]

\* the statusCode chosen without the test of the range 400..599
ErrorStatusCodeAnyNumber(err) ==
    IF err.statusCode.t = "number" THEN err.statusCode.v
    ELSE IF err.status.t = "number" THEN err.status.v
    ELSE IF err.code.t = "number" THEN err.code.v
    ELSE 500


\* maybeStatus and the statusCode chosen for an error that is no signal
ErrorStatusCode(err) ==
    LET maybeStatus ==
            IF err.statusCode.t # "undefined" THEN err.statusCode
            ELSE IF err.status.t # "undefined" THEN err.status
            ELSE IF err.code.t = "number" THEN err.code
            ELSE Undef
    IN  IF maybeStatus.t = "number" /\ maybeStatus.v >= 400 /\ maybeStatus.v <= 599
        THEN maybeStatus.v
        ELSE 500

\* allRoutes.find(r => r.path === p) over candidatePaths, in their order
RECURSIVE FindFirstByPaths(_, _)
FindFirstByPaths(table, candidatePaths) ==
    IF candidatePaths = <<>>
    THEN NoRoute
    ELSE IF \E i \in 1..Len(table) : table[i].path = Head(candidatePaths)
         THEN table[CHOOSE i \in 1..Len(table) :
                       /\ table[i].path = Head(candidatePaths)
                       /\ \A j \in 1..(i - 1) : table[j].path # Head(candidatePaths)]
         ELSE FindFirstByPaths(table, Tail(candidatePaths))

\* String(statusCode), for the status codes the handler can choose
RECURSIVE NumberToString(_)
NumberToString(n) ==
    IF n < 10
    THEN <<SubSeq(<<"0","1","2","3","4","5","6","7","8","9">>, n + 1, n + 1)[1]>>
    ELSE NumberToString(n \div 10) \o NumberToString(n % 10)

\* candidatePaths of the error branch
CandidatePaths(statusCode) ==
    <<<<"/">> \o NumberToString(statusCode)>>
        \o (IF statusCode = 404 THEN <<<<"/","4","0","4">>, <<"/","n","o","t","-","f","o","u","n","d">>>> ELSE <<>>)
        \o (IF statusCode = 500 THEN <<<<"/","5","0","0">>>> ELSE <<>>)
        \o <<<<"/","e","r","r","o","r">>>>

\* a return out of handlePageRoute's try: the response is sent and the
\* finally clause has run
PageReturns(r, rec, response) ==
    /\ req' = [req EXCEPT ![r] = Finish(rec, response)]
    /\ currentRequestCookies' = [owner |-> "#none"]
    /\ requestContext' = [requestContext EXCEPT ![StoreKey(r)] = NoStore]

\* handlePageRoute keeps running after an await
PageContinues(r, rec) ==
    /\ req' = [req EXCEPT ![r] = rec]
    /\ UNCHANGED <<currentRequestCookies, requestContext>>

\* handlePageRoute from its first await to the check of the page's export:
\* the client-only shell, the bundling of the page, the resolved component.
\* A client-only page is bundled and required for its metadata, and the
\* failure of either is ignored.  bundle and required record whether the
\* bundler failed on the page and whether its module was required.
PageCompileOutcomes ==
    {"clientOnly", "clientOnlyBundleFails", "bundleFails", "notAFunction", "ok"}
Bundled(rec, bundle, required) == [rec EXCEPT !.bundle = bundle, !.required = required]
PageCompile(r, outcome) ==
    /\ req[r].pc = "pageCompile"
    /\ CASE outcome = "clientOnly" ->
              PageReturns(r, Bundled(req[r], "ok", TRUE),
                          Response(200, Undefined, "shell"))
         [] outcome = "clientOnlyBundleFails" ->
              PageReturns(r, Bundled(req[r], "failed", FALSE),
                          Response(200, Undefined, "shell"))
         [] outcome = "bundleFails" ->
              PageReturns(r, [Bundled(req[r], "failed", FALSE) EXCEPT !.errorLogged = TRUE],
                          Response(500, Undefined, "overlay"))
         [] outcome = "notAFunction" ->
              PageReturns(r, [Bundled(req[r], "ok", TRUE) EXCEPT !.errorLogged = TRUE],
                          Response(500, Undefined, "diagnostic"))
         [] OTHER -> PageContinues(r, [Bundled(req[r], "ok", TRUE) EXCEPT !.pc = "pageEval"])
    /\ UNCHANGED <<routes, apiRoutes, scans, fnVars, cacheVars>>

\* which call runs the body of the page component: handlePageRoute calls an
\* AsyncFunction itself and awaits the node; any other component is handed
\* to React.createElement and runs inside renderToString(Wrapper)
PageBodyRunsInAlways(isPageAsync) == "renderToString"
PageBodyRunsIn(isPageAsync) == IF isPageAsync THEN "call" ELSE "renderToString"

\* handlePageRoute from the layouts to the await that follows the run of the
\* page's body.  Layouts that fail to load are skipped with a warning.
PageEval(r, behaviour) ==
    /\ req[r].pc = "pageEval"
    /\ LET inRender == PageBodyRunsIn(behaviour.isAsync) = "renderToString"
           returns == behaviour.result.kind = "returns"
       IN  PageContinues(r,
              [Staged(req[r], "RENDER") EXCEPT
                             !.pc = "pageResume",
                             !.isPageAsync = behaviour.isAsync,
                             !.ctxRead = requestContext[StoreKey(r)],
                             !.renderCalls = IF inRender THEN @ + 1 ELSE @,
                             !.pageHTML = IF inRender /\ returns THEN "markup" ELSE @,
                             !.thrown = IF returns THEN NoError ELSE behaviour.result])
    /\ UNCHANGED <<routes, apiRoutes, scans, fnVars, cacheVars>>

\* the redirect branch of the catch clause: the response object built from
\* err.__SATSET_REDIRECT
RedirectResponseAsThrown(info) ==
    SatsetResponseRedirect(info.url, IF info.status.t = "number" THEN info.status.v ELSE 0)
RedirectResponse(info) ==
    LET url == IF info.url # Undefined /\ info.url # <<>> THEN info.url ELSE <<"/">>
        status == IF info.status.t = "number" THEN info.status.v ELSE 307
    IN  SatsetResponseRedirect(url, status)

\* the catch clause of the render, up to its first await or return
PageCatch(r, rec) ==
    LET err == rec.thrown
        logged == [rec EXCEPT !.errorLogged = TRUE]
    IN  CASE err.kind = "redirect" ->
               PageReturns(r, logged, SendSatsetResponse(RedirectResponse(err)))
          [] err.kind = "notFound" ->
               LET nf == FindNotFoundRoute(rec.allRoutes)
               IN  PageContinues(r,
                      IF nf # NoRoute
                      THEN [logged EXCEPT !.statusCode = 404, !.pc = "notFoundPage"]
                      ELSE [logged EXCEPT !.statusCode = 404, !.pc = "send",
                                          !.pageHTML = "literal404"])
          [] OTHER ->
               LET statusCode == ErrorStatusCode(err)
                   errorRoute == FindFirstByPaths(rec.allRoutes, CandidatePaths(statusCode))
               IN  IF errorRoute # NoRoute
                   THEN PageContinues(r, [logged EXCEPT !.statusCode = statusCode,
                                                        !.errorRoute = errorRoute.path,
                                                        !.pc = "errorPage"])
                   ELSE PageReturns(r, [logged EXCEPT !.statusCode = statusCode],
                                    Response(500, Undefined, "overlay"))

\* handlePageRoute resumes after the page's body ran: the catch clause when
\* it threw; otherwise the node of an async page is rendered, inside its
\* layouts, by renderToString(Wrapper)
PageResume(r) ==
    /\ req[r].pc = "pageResume"
    /\ IF req[r].thrown # NoError
       THEN PageCatch(r, req[r])
       ELSE IF req[r].pageHTML = "markup"
       THEN PageContinues(r, [req[r] EXCEPT !.pc = "send"])
       ELSE PageContinues(r, [req[r] EXCEPT !.pc = "send",
                                            !.renderCalls = @ + 1,
                                            !.pageHTML = "markup"])
    /\ UNCHANGED <<routes, apiRoutes, scans, fnVars, cacheVars>>

\* the not-found page is bundled and rendered; the literal markup when that
\* fails
PageNotFound(r, renders) ==
    /\ req[r].pc = "notFoundPage"
    /\ PageContinues(r, [req[r] EXCEPT !.pc = "send",
                                       !.pageHTML = IF renders THEN "notFoundPage"
                                                    ELSE "literal404"])
    /\ UNCHANGED <<routes, apiRoutes, scans, fnVars, cacheVars>>

\* the paths error pages are registered under, and which of the project's
\* error pages compile and render
ErrorPagePaths == {<<"/","5","0","0">>, <<"/","e","r","r","o","r">>}

\* the error page found is bundled and rendered; the overlay when that
\* fails.  renderable holds the paths of the error pages that render.
PageError(r, renderable) ==
    /\ req[r].pc = "errorPage"
    /\ IF req[r].errorRoute \in renderable
       THEN PageContinues(r, [req[r] EXCEPT !.pc = "send", !.pageHTML = "errorPage",
                                            !.renderable = renderable])
       ELSE PageReturns(r, [req[r] EXCEPT !.renderable = renderable],
                        Response(500, Undefined, "overlay"))
    /\ UNCHANGED <<routes, apiRoutes, scans, fnVars, cacheVars>>

\* metadata and document around pageHTML, then res.writeHead(statusCode) and
\* res.end(html); the overlay of the outer catch clause when that throws
PageSend(r, throws) ==
    /\ req[r].pc = "send"
    /\ IF throws
       THEN PageReturns(r, req[r], Response(500, Undefined, "overlay"))
       ELSE PageReturns(r, req[r], Response(req[r].statusCode, Undefined, req[r].pageHTML))
    /\ UNCHANGED <<routes, apiRoutes, scans, fnVars, cacheVars>>

\* whether the code from the end of the render's catch clause to res.end
\* throws: every call in it that can is inside a try of its own
SendThrows == {FALSE}


\* one request with every input and every behaviour of the project's code
NextRequest ==
    \/ \E scanned \in Discoveries : HmrRescan(scanned)
    \/ \E url \in RequestUrls, cookieLang \in CookieLangs, acceptLanguage \in AcceptLanguages :
          Arrive("r1", url, cookieLang, acceptLanguage)
    \/ \E outcome \in MiddlewareOutcomes : RunMiddleware("r1", outcome)
    \/ Dispatch("r1")
    \/ \E behaviour \in ApiBehaviours : HandleApiRoute("r1", behaviour)
    \/ \E outcome \in PageCompileOutcomes : PageCompile("r1", outcome)
    \/ \E behaviour \in PageBehaviours : PageEval("r1", behaviour)
    \/ PageResume("r1")
    \/ \E renders \in BOOLEAN : PageNotFound("r1", renders)
    \/ \E renderable \in SUBSET ErrorPagePaths : PageError("r1", renderable)
    \/ \E throws \in SendThrows : PageSend("r1", throws)

SpecRequest == InitServer /\ [][NextRequest]_vars

\* concurrent requests and re-discovery
Next ==
    \/ \E scanned \in Discoveries : HmrRescan(scanned)
    \/ \E r \in Reqs :
          \/ \E url \in CoreUrls : Arrive(r, url, Undefined, Undefined)
          \/ \E outcome \in CoreMiddlewareOutcomes : RunMiddleware(r, outcome)
          \/ Dispatch(r)
          \/ \E behaviour \in CoreApiBehaviours : HandleApiRoute(r, behaviour)
          \/ PageCompile(r, "ok")
          \/ \E behaviour \in CorePageBehaviours : PageEval(r, behaviour)
          \/ PageResume(r)
          \/ PageNotFound(r, TRUE)
          \/ PageError(r, ErrorPagePaths)
          \/ PageSend(r, FALSE)

Spec == InitServer /\ [][Next]_vars

(***************************************************************************)
(* Claims about the dev server                                             *)
(***************************************************************************)
Done(r) == req[r].pc = "done"
ThrewRedirect(r) == req[r].thrown.kind = "redirect"

\* C1: a request whose locale-stripped path starts with '/api/' and matches
\* no route of the API table is answered 404 by the dispatcher, in the very
\* step that read the API table; the page table is not matched against and
\* no page handler or render ever runs for it.
C1_ApiNamespaceClosed ==
    /\ [][\A r \in Reqs :
            ( /\ req[r].pc = "dispatch" /\ req'[r].pc # "dispatch"
              /\ StartsWith(req[r].effectivePath, <<"/","a","p","i","/">>)
              /\ MatchRoute(req[r].effectivePath, apiRoutes.list).kind = "null" )
            => ( /\ req'[r].pc = "done"
                 /\ req'[r].handler = "api404"
                 /\ req'[r].response = Response(404, Undefined, "json")
                 /\ ~req'[r].pageMatched
                 /\ req'[r].pageTableOf = -1 )]_vars
    /\ [](\A r \in Reqs :
            req[r].handler = "api404" =>
                /\ Done(r) /\ req[r].renderCalls = 0 /\ req[r].ctxRead.owner # r
                /\ req[r].allRoutes = <<>>)

\* '/id/api/missing' is answered 404 although the page table of the moment
\* holds a route that fits '/api/missing'
C1_Witness ==
    /\ req["r1"].url = <<"/","i","d","/","a","p","i","/","m","i","s","s","i","n","g">>
    /\ req["r1"].effectivePath = <<"/","a","p","i","/","m","i","s","s","i","n","g">>
    /\ req["r1"].handler = "api404"
    /\ req["r1"].response.sent /\ req["r1"].response.status = 404
    /\ MatchRoute(req["r1"].effectivePath, routes.list).kind = "match"

\* C3 as stated: when page rendering throws a redirect signal carrying
\* (url, status), the response has that status, a Location header equal to
\* that url and no body.
C3_RedirectAsSignalled ==
    \A r \in Reqs :
        ( /\ ThrewRedirect(r) /\ Done(r)
          /\ req[r].thrown.url # Undefined /\ req[r].thrown.status.t = "number" )
        => req[r].response = Response(req[r].thrown.status.v, req[r].thrown.url, "none")

\* C3: when page rendering throws a redirect signal, the response has no
\* body, a Location header equal to the signal's url, or '/' when that url
\* is empty or no string, and the signal's status, or 307 when that status
\* is no number and 200 when it is 0; no markup and no overlay is sent.
C3_RedirectResponse ==
    \A r \in Reqs :
        (ThrewRedirect(r) /\ Done(r)) =>
            LET info == req[r].thrown
                location == IF info.url \in {Undefined, <<>>} THEN <<"/">> ELSE info.url
                status == IF info.status.t # "number" THEN 307
                          ELSE IF info.status.v = 0 THEN 200 ELSE info.status.v
            IN  /\ req[r].response = Response(status, location, "none")
                /\ req[r].pageHTML = "none"

\* a page threw redirect('/login', 307) and the response went out
C3_Witness ==
    /\ Done("r1")
    /\ req["r1"].thrown = RedirectSignal(<<"/","l","o","g","i","n">>, Num(307))
    /\ req["r1"].response = Response(307, <<"/","l","o","g","i","n">>, "none")

\* C4 as stated: when a page, synchronous or asynchronous, throws a redirect
\* signal, renderToString is never invoked for the page during the request.
C4_NeverRendered ==
    \A r \in Reqs : ThrewRedirect(r) => req[r].renderCalls = 0

\* C4: when an asynchronous page throws a redirect signal, renderToString is
\* never invoked during the request; when a synchronous page throws it,
\* renderToString has been invoked once, on the tree that holds the page,
\* and the throw ends that invocation; either way no markup of the page is
\* produced or sent.
C4_RenderOnRedirect ==
    \A r \in Reqs :
        ThrewRedirect(r) =>
            /\ req[r].isPageAsync => req[r].renderCalls = 0
            /\ ~req[r].isPageAsync => req[r].renderCalls = 1
            /\ req[r].pageHTML = "none"
            /\ Done(r) => req[r].response.sent /\ req[r].response.body = "none"

\* an async page threw a redirect signal and its request is answered
C4_Witness ==
    /\ Done("r1") /\ ThrewRedirect("r1")
    /\ req["r1"].isPageAsync /\ req["r1"].renderCalls = 0
    /\ req["r1"].response.sent

\* C7: whatever the interleaving, the code of a request reads from the
\* request context the store made for that request (its locale, params,
\* pathname and dictionaries) when it runs inside a handler, and no store at
\* all in the middleware; never the store of another request.
C7_ContextNotShared ==
    \A r \in Reqs :
        LET read == req[r].ctxRead
        IN  /\ read.owner \in {"#notread", "#none", r}
            /\ read.owner = r => read = Store(r, req[r], req[r].params)
            /\ req[r].pc \in {"pageResume", "notFoundPage", "errorPage", "send"}
                  => read.owner = r

\* two requests for different urls are in flight and the page of each has
\* read the context
C7_Witness ==
    /\ req["r1"].pc = "pageResume" /\ req["r2"].pc = "pageResume"
    /\ req["r1"].ctxRead.owner = "r1" /\ req["r2"].ctxRead.owner = "r2"
    /\ req["r1"].url # req["r2"].url
    /\ requestContext["r1"] # requestContext["r2"]

\* C8: each dispatch matches against an API table and a page table of the
\* same discovery pass, and the two tables are at every moment the complete
\* result of one pass.
C8_TablesOfOnePass ==
    /\ routes.pass = apiRoutes.pass
    /\ \E scanned \in Discoveries :
          routes.list = scanned.routes /\ apiRoutes.list = scanned.apiRoutes
    /\ \A r \in Reqs :
          /\ req[r].pageTableOf # -1 => req[r].pageTableOf = req[r].apiTableOf
          /\ req[r].handler = "page" =>
                \E scanned \in Discoveries : req[r].allRoutes = scanned.routes

\* a request dispatched on the tables of the first pass is still in flight
\* when another is dispatched on the tables of a later pass
C8_Witness ==
    /\ req["r1"].pageTableOf = 0 /\ req["r1"].pc \in {"pageCompile", "pageEval", "pageResume"}
    /\ req["r2"].pageTableOf >= 1 /\ req["r2"].apiTableOf >= 1
    /\ routes.list # req["r1"].allRoutes

(***************************************************************************)
(* Further claims about the matcher                                        *)
(***************************************************************************)
\* C11: when the path is exactly the literal prefix of a catch-all route and
\* no route before it in the table fits, matchRoute returns that route with
\* the catch-all parameter bound to the empty string, whether the catch-all
\* is optional or required.
C11_EmptyCatchAll ==
    MatchCalled =>
        \A i \in 1..Len(fnInput.routes) :
            LET route == fnInput.routes[i]
                pat == Segments(route.path)
            IN  ( /\ route.dynamic
                  /\ pat # <<>>
                  /\ pat[Len(pat)][1] = "*"
                  /\ Segments(fnInput.pathname) = SubSeq(pat, 1, Len(pat) - 1)
                  /\ \A j \in 1..(i - 1) :
                        MatchOne(fnInput.pathname, fnInput.routes, j).kind = "null" )
                => ( /\ fnOutput.kind = "match"
                     /\ fnOutput.index = i
                     /\ fnOutput.route.catchAllOptional = route.catchAllOptional
                     /\ fnOutput.params = {<<Slice(pat[Len(pat)], 1), <<>>>>} )

\* '/docs' matched the required catch-all route '/docs/*path' with path = ''
C11_Witness ==
    /\ MatchCalled
    /\ Segments(fnInput.pathname) = <<<<"d","o","c","s">>>>
    /\ fnOutput.kind = "match"
    /\ fnOutput.route.path = <<"/","d","o","c","s","/","*","p","a","t","h">>
    /\ ~fnOutput.route.catchAllOptional
    /\ fnOutput.params = {<<<<"p","a","t","h">>, <<>>>>}

(***************************************************************************)
(* Route discovery (router/file-system.ts): getRoutes, scanDirectory,      *)
(* scanApiDirectory, extractParams.  A file of the project is the chain of *)
(* directory names from src/app or src/pages down to it and its name; the  *)
(* prefix a scan carries to a file depends on that chain alone.            *)
(***************************************************************************)
\* s.endsWith(p)
EndsWith(s, p) ==
    /\ Len(p) <= Len(s)
    /\ SubSeq(s, Len(s) - Len(p) + 1, Len(s)) = p

\* s.slice(a, -b): without the first a and the last b characters
SliceBetween(s, a, b) == SubSeq(s, a + 1, Len(s) - b)

\* s.indexOf(p), 0-based, -1 when p does not occur
IndexOf(s, p) ==
    IF \E i \in 1..(Len(s) - Len(p) + 1) : SubSeq(s, i, i + Len(p) - 1) = p
    THEN (CHOOSE i \in 1..(Len(s) - Len(p) + 1) :
            /\ SubSeq(s, i, i + Len(p) - 1) = p
            /\ \A j \in 1..(i - 1) : SubSeq(s, j, j + Len(p) - 1) # p) - 1
    ELSE -1

\* s.includes(p) for a string p
IncludesString(s, p) == IndexOf(s, p) # -1

\* s.replace(p, q) with a string pattern: the first occurrence only
ReplaceFirst(s, p, q) ==
    IF IndexOf(s, p) = -1
    THEN s
    ELSE SubSeq(s, 1, IndexOf(s, p)) \o q \o Slice(s, IndexOf(s, p) + Len(p))

\* extractParams(routePath): the loop over the pieces of the path
RECURSIVE ExtractFrom(_)
ExtractFrom(segments) ==
    IF segments = <<>>
    THEN <<>>
    ELSE IF StartsWith(Head(segments), <<":">>) \/ StartsWith(Head(segments), <<"*">>)
         THEN <<Slice(Head(segments), 1)>> \o ExtractFrom(Tail(segments))
         ELSE ExtractFrom(Tail(segments))

\* extractParams(routePath)
ExtractParams(routePath) == ExtractFrom(Split(routePath, "/"))

\* the params field of a route: absent, or an array of names
NoParams == [present |-> FALSE, names |-> <<>>]
ParamsField(names) == [present |-> TRUE, names |-> names]

\* a route as discovery pushes it; a field the code leaves out is FALSE (or
\* absent, for params), which is how the matcher reads it
Discovered(path, component, exact, dynamic, catchAllOptional, params) ==
    [path |-> path, component |-> component, exact |-> exact, dynamic |-> dynamic,
     catchAllOptional |-> catchAllOptional, params |-> params]

\* what the visit of a directory entry gives: nothing, a page route, an API
\* route
NoRoutes == [routes |-> <<>>, apiRoutes |-> <<>>]
PageRoute(route) == [routes |-> <<route>>, apiRoutes |-> <<>>]
ApiRoute(route) == [routes |-> <<>>, apiRoutes |-> <<route>>]

IsBracketed(file, open, close) == StartsWith(file, open) /\ EndsWith(file, close)

\* scanDirectory and scanApiDirectory entering a directory with a bracketed
\* or a plain name: the prefix for its entries
DirPrefix(prefix, file) ==
    IF IsBracketed(file, <<"[","[",".",".",".">>, <<"]","]">>)
    THEN prefix \o <<"/","*","?">> \o SliceBetween(file, 5, 2)
    ELSE IF IsBracketed(file, <<"[",".",".",".">>, <<"]">>)
    THEN prefix \o <<"/","*">> \o SliceBetween(file, 4, 1)
    ELSE IF IsBracketed(file, <<"[">>, <<"]">>)
    THEN prefix \o <<"/",":">> \o SliceBetween(file, 1, 1)
    ELSE prefix \o <<"/">> \o file

\* file.replace(/\.(ts|js)$/, '')
StripTsJs(file) ==
    IF EndsWith(file, <<".","t","s">>) \/ EndsWith(file, <<".","j","s">>)
    THEN SliceBetween(file, 0, 3) ELSE file

\* file.replace(/\.(tsx|jsx|ts|js)$/, '')
StripTsxJsx(file) ==
    IF EndsWith(file, <<".","t","s","x">>) \/ EndsWith(file, <<".","j","s","x">>)
    THEN SliceBetween(file, 0, 4) ELSE StripTsJs(file)

\* the branch of scanApiDirectory for a file: the route of a .ts or .js file
ApiFileRoute(prefix, file, fullPath, fileName) ==
    IF fileName = <<"r","o","u","t","e">>
    THEN Discovered(IF prefix = <<>> THEN <<"/">> ELSE prefix, fullPath, FALSE,
                    IncludesString(prefix, <<":">>) \/ IncludesString(prefix, <<"*">>),
                    FALSE,
                    IF IncludesString(prefix, <<":">>) \/ IncludesString(prefix, <<"*">>)
                    THEN ParamsField(ExtractParams(prefix)) ELSE ParamsField(<<>>))
    ELSE IF IsBracketed(fileName, <<"[">>, <<"]">>) /\ ~StartsWith(fileName, <<"[",".",".",".">>)
    THEN Discovered(prefix \o <<"/",":">> \o SliceBetween(fileName, 1, 1), fullPath, FALSE, TRUE,
                    FALSE, ParamsField(<<SliceBetween(fileName, 1, 1)>>))
    ELSE IF IsBracketed(fileName, <<"[",".",".",".">>, <<"]">>)
    THEN Discovered(prefix \o <<"/","*">> \o SliceBetween(fileName, 4, 1), fullPath, FALSE, TRUE,
                    FALSE, ParamsField(<<SliceBetween(fileName, 4, 1)>>))
    ELSE Discovered(prefix \o <<"/">> \o fileName, fullPath, FALSE,
                    IncludesString(prefix \o <<"/">> \o fileName, <<":">>)
                        \/ IncludesString(prefix \o <<"/">> \o fileName, <<"*">>),
                    FALSE,
                    IF IncludesString(prefix \o <<"/">> \o fileName, <<":">>)
                          \/ IncludesString(prefix \o <<"/">> \o fileName, <<"*">>)
                    THEN ParamsField(ExtractParams(prefix \o <<"/">> \o fileName))
                    ELSE ParamsField(<<>>))

\* the branch of scanDirectory for a page file (page.tsx and its like)
MainPageRoute(prefix, fullPath) ==
    Discovered(
        ReplaceFirst(IF prefix = <<>> THEN <<"/">> ELSE prefix, <<"/","*","?">>, <<"/","*">>),
        fullPath,
        ~(IncludesString(prefix, <<":">>) \/ IncludesString(prefix, <<"*">>)),
        IncludesString(prefix, <<":">>) \/ IncludesString(prefix, <<"*">>),
        IncludesString(prefix, <<"/","*","?">>),
        ParamsField(ExtractParams(ReplaceFirst(prefix, <<"/","*","?">>, <<"/","*">>))))

\* the branch of scanDirectory for not-found and 404 files
NotFoundFileRoute(prefix, file, fullPath) ==
    Discovered(prefix \o <<"/">> \o Split(file, ".")[1], fullPath, TRUE, FALSE, FALSE, NoParams)

\* the branch of scanDirectory for the other files of a pages directory.  A
\* name in double brackets is taken by the first test, as a name in brackets.
PagesFileRoute(prefix, fullPath, fileName) ==
    IF IsBracketed(fileName, <<"[">>, <<"]">>) /\ ~StartsWith(fileName, <<"[",".",".",".">>)
    THEN Discovered(prefix \o <<"/",":">> \o SliceBetween(fileName, 1, 1), fullPath, FALSE, TRUE,
                    FALSE, ParamsField(<<SliceBetween(fileName, 1, 1)>>))
    ELSE IF IsBracketed(fileName, <<"[",".",".",".">>, <<"]">>)
    THEN Discovered(prefix \o <<"/","*">> \o SliceBetween(fileName, 4, 1), fullPath, FALSE, TRUE,
                    FALSE, ParamsField(<<SliceBetween(fileName, 4, 1)>>))
    ELSE Discovered(IF prefix \o <<"/">> \o fileName = <<"/","i","n","d","e","x">>
                    THEN <<"/">> ELSE prefix \o <<"/">> \o fileName,
                    fullPath, TRUE, FALSE, FALSE, NoParams)

PageFileNames == { <<"p","a","g","e",".","t","s","x">>, <<"p","a","g","e",".","j","s","x">>, <<"p","a","g","e",".","t","s">>, <<"p","a","g","e",".","j","s">> }
NotFoundFileNames ==
    { <<"n","o","t","-","f","o","u","n","d",".","t","s","x">>, <<"n","o","t","-","f","o","u","n","d",".","j","s","x">>, <<"n","o","t","-","f","o","u","n","d",".","t","s">>, <<"n","o","t","-","f","o","u","n","d",".","j","s">>,
      <<"4","0","4",".","t","s","x">>, <<"4","0","4",".","j","s","x">>, <<"4","0","4",".","t","s">>, <<"4","0","4",".","j","s">> }
SkippedFolders == { <<"l","i","b">>, <<"s","t","y","l","e","s">>, <<"a","s","s","e","t","s">>, <<"t","y","p","e","s">> }

\* scanDirectory at a file
ScanFile(prefix, file, type, fullPath) ==
    IF file \in PageFileNames
    THEN PageRoute(MainPageRoute(prefix, fullPath))
    ELSE IF file \in NotFoundFileNames
    THEN PageRoute(NotFoundFileRoute(prefix, file, fullPath))
    ELSE IF /\ type = "pages"
            /\ \/ EndsWith(file, <<".","t","s","x">>) \/ EndsWith(file, <<".","j","s","x">>)
               \/ EndsWith(file, <<".","t","s">>) \/ EndsWith(file, <<".","j","s">>)
            /\ ~StartsWith(file, <<"_">>)
            /\ ~EndsWith(file, <<".","d",".","t","s">>)
    THEN PageRoute(PagesFileRoute(prefix, fullPath, StripTsxJsx(file)))
    ELSE NoRoutes

\* scanApiDirectory down the chain of directories dirs to the file
RECURSIVE ScanApiDirectory(_, _, _, _)
ScanApiDirectory(dirs, file, prefix, fullPath) ==
    IF dirs # <<>>
    THEN ScanApiDirectory(Tail(dirs), file, DirPrefix(prefix, Head(dirs)), fullPath)
    ELSE IF (EndsWith(file, <<".","t","s">>) \/ EndsWith(file, <<".","j","s">>)) /\ ~EndsWith(file, <<".","d",".","t","s">>)
         THEN ApiRoute(ApiFileRoute(prefix, file, fullPath, StripTsJs(file)))
         ELSE NoRoutes

\* scanDirectory down the chain of directories dirs to the file
RECURSIVE ScanDirectory(_, _, _, _, _)
ScanDirectory(dirs, file, prefix, type, fullPath) ==
    IF dirs = <<>>
    THEN ScanFile(prefix, file, type, fullPath)
    ELSE IF Head(dirs) \in SkippedFolders
    THEN NoRoutes
    ELSE IF Head(dirs) = <<"a","p","i">>
    THEN ScanApiDirectory(Tail(dirs), file, <<"/","a","p","i">>, fullPath)
    ELSE IF IsBracketed(Head(dirs), <<"(">>, <<")">>)
    THEN ScanDirectory(Tail(dirs), file, prefix, type, fullPath)
    ELSE ScanDirectory(Tail(dirs), file, DirPrefix(prefix, Head(dirs)), type, fullPath)

\* a file of the project: under src/app or src/pages (top), the directories
\* down to it, its name
ProjectFile(top, dirs, file) == [top |-> top, dirs |-> dirs, file |-> file]
FullPath(f) ==
    Root \o <<"/","s","r","c","/">> \o Join(<<f.top>> \o f.dirs \o <<f.file>>, "/")

\* the scan of src/app (type 'app') or src/pages (type 'pages') at file f
ScanTop(f) ==
    ScanDirectory(f.dirs, f.file, <<>>,
                  IF f.top = <<"a","p","p">> THEN "app" ELSE "pages", FullPath(f))

\* the fallback scan of src, as a pages directory, at file f
ScanSrc(f) == ScanDirectory(<<f.top>> \o f.dirs, f.file, <<>>, "pages", FullPath(f))

\* the projects scanned: every project of one file at most MaxDepth
\* directories down, and some of two files, in the order of the visit
MaxDepth == 2
DirPool ==
    { <<"b","l","o","g">>, <<"[","i","d","]">>, <<"[",".",".",".","r","e","s","t","]">>, <<"[","[",".",".",".","r","e","s","t","]","]">>, <<"(","s","h","o","p",")">>, <<"a","p","i">>, <<"l","i","b">> }
FilePool ==
    { <<"p","a","g","e",".","t","s","x">>, <<"n","o","t","-","f","o","u","n","d",".","t","s","x">>, <<"r","o","u","t","e",".","t","s">>, <<"[","i","d","]",".","t","s">>, <<"[",".",".",".","a","l","l","]",".","t","s">>,
      <<"[","[",".",".",".","a","l","l","]","]",".","t","s","x">>, <<"a","b","o","u","t",".","t","s","x">>, <<"i","n","d","e","x",".","t","s","x">>, <<"u","s","e","r","s",".","t","s">>, <<"_","a","p","p",".","t","s","x">>,
      <<"e","n","v",".","d",".","t","s">> }
TopPool == { <<"a","p","p">>, <<"p","a","g","e","s">> }
OneFileProjects ==
    { <<ProjectFile(top, dirs, file)>> :
        top \in TopPool, dirs \in SeqsUpTo(DirPool, MaxDepth), file \in FilePool }
TwoFileProjects ==
    { <<ProjectFile(<<"a","p","p">>, <<>>, <<"p","a","g","e",".","t","s","x">>),
        ProjectFile(<<"a","p","p">>, <<<<"a","p","i">>, <<"u","s","e","r","s">>>>, <<"r","o","u","t","e",".","t","s">>)>>,
      <<ProjectFile(<<"a","p","p">>, <<<<"(","s","h","o","p",")">>, <<"c","a","r","t">>>>, <<"p","a","g","e",".","t","s","x">>),
        ProjectFile(<<"a","p","p">>, <<<<"c","a","r","t">>>>, <<"p","a","g","e",".","t","s","x">>)>>,
      <<ProjectFile(<<"a","p","p">>, <<<<"a","p","i">>, <<"u","s","e","r","s">>>>, <<"r","o","u","t","e",".","t","s">>),
        ProjectFile(<<"p","a","g","e","s">>, <<>>, <<"u","s","e","r","s",".","t","s","x">>)>> }
ScanProjects == OneFileProjects \cup TwoFileProjects

InitScan ==
    /\ fnInput \in [fn : {"getRoutes"}, files : ScanProjects]
    /\ fnOutput = [kind |-> "notcalled"]
    /\ IdleCache /\ IdleServer

\* getRoutes(appDir) begins: two empty arrays
CallGetRoutes ==
    /\ fnInput.fn = "getRoutes"
    /\ fnOutput.kind = "notcalled"
    /\ fnOutput' = [kind |-> "scanning", pass |-> "tops", next |-> 1,
                    routes |-> <<>>, apiRoutes |-> <<>>]
    /\ UNCHANGED <<fnInput, cacheVars, serverVars>>

Pushed(found) ==
    [fnOutput EXCEPT !.next = @ + 1,
                     !.routes = @ \o found.routes,
                     !.apiRoutes = @ \o found.apiRoutes]

\* the scan reaches the next file of the project
ScanEntry ==
    /\ fnInput.fn = "getRoutes"
    /\ fnOutput.kind = "scanning"
    /\ fnOutput.next <= Len(fnInput.files)
    /\ fnOutput' = Pushed(IF fnOutput.pass = "tops"
                          THEN ScanTop(fnInput.files[fnOutput.next])
                          ELSE ScanSrc(fnInput.files[fnOutput.next]))
    /\ UNCHANGED <<fnInput, cacheVars, serverVars>>

\* the scans of src/app and src/pages are over: src is scanned as a pages
\* directory when they found no page, and getRoutes returns
ScanEnd ==
    /\ fnInput.fn = "getRoutes"
    /\ fnOutput.kind = "scanning"
    /\ fnOutput.next > Len(fnInput.files)
    /\ fnOutput' = IF fnOutput.pass = "tops" /\ fnOutput.routes = <<>>
                   THEN [fnOutput EXCEPT !.pass = "src", !.next = 1]
                   ELSE [fnOutput EXCEPT !.kind = "tables"]
    /\ UNCHANGED <<fnInput, cacheVars, serverVars>>

NextScan == CallGetRoutes \/ ScanEntry \/ ScanEnd

SpecScan == InitScan /\ [][NextScan]_vars

(***************************************************************************)
(* Claims about route discovery                                            *)
(***************************************************************************)
ScanReturned == fnInput.fn = "getRoutes" /\ fnOutput.kind = "tables"
RoutesFound ==
    {fnOutput.routes[i] : i \in 1..Len(fnOutput.routes)}
        \cup {fnOutput.apiRoutes[i] : i \in 1..Len(fnOutput.apiRoutes)}

\* the names of the ':' and '*' segments of a path pattern, in order
ParamTokens(path) ==
    LET IsToken(segment) == segment # <<>> /\ segment[1] \in {":", "*"}
        tokens == SelectSeq(Split(path, "/"), IsToken)
    IN  [i \in 1..Len(tokens) |-> Tail(tokens[i])]

\* C12: after a discovery pass every route of the two tables has params
\* equal to the names of the ':' and '*' segments of its path, in order (a
\* route without a params field counting as one without names).
C12_ParamsAreTokens ==
    ScanReturned =>
        \A route \in RoutesFound : route.params.names = ParamTokens(route.path)

\* C13: in every route discovery produces, a catch-all segment is the last
\* segment of the path.
C13_CatchAllLast ==
    ScanReturned =>
        \A route \in RoutesFound :
            LET pat == Segments(route.path)
            IN  \A i \in 1..Len(pat) : pat[i][1] = "*" => i = Len(pat)

(***************************************************************************)
(* Further claims about the dev server                                     *)
(***************************************************************************)
Dispatched(r) == req[r].handler # "none"

\* C14 as stated: during one dispatch the path is matched against one of the
\* two tables only, never against both the API table and the page table.
C14_OneTableOnly ==
    \A r \in Reqs : ~(req[r].apiTableOf # -1 /\ req[r].pageMatched)

\* C14: during one dispatch the path is matched against the API table first,
\* whatever the path; the page table is matched against exactly when the API
\* table gave no match and the path does not start with '/api/'; the route
\* the request is handled with comes from one table only, the API table when
\* it matched.
C14_ApiThenPages ==
    [][\A r \in Reqs :
         (req[r].pc = "dispatch" /\ req'[r].pc # "dispatch") =>
            LET apiMatch == MatchRoute(req[r].effectivePath, apiRoutes.list)
                pages == {routes.list[i] : i \in 1..Len(routes.list)}
            IN  /\ req'[r].apiTableOf = apiRoutes.pass
                /\ req'[r].pageMatched <=>
                      ( /\ apiMatch.kind = "null"
                        /\ ~StartsWith(req[r].effectivePath, <<"/","a","p","i","/">>) )
                /\ apiMatch.kind = "match" =>
                      /\ req'[r].handler = "api"
                      /\ req'[r].route = apiMatch.route
                /\ req'[r].handler = "api" => apiMatch.kind = "match"
                /\ req'[r].handler = "page" =>
                      /\ req'[r].pageMatched
                      /\ req'[r].route \in pages]_vars

\* '/about' went to its page after both tables were matched against
C14_Witness ==
    /\ req["r1"].url = <<"/","a","b","o","u","t">>
    /\ req["r1"].handler = "page" /\ req["r1"].route = PageAbout
    /\ req["r1"].apiTableOf # -1 /\ req["r1"].pageMatched
    /\ Done("r1") /\ req["r1"].response.sent

ThrewNotFound(r) == req[r].thrown.kind = "notFound"
NotFoundRegistered(table) ==
    \E i \in 1..Len(table) : table[i].path \in {<<"/","4","0","4">>, <<"/","n","o","t","-","f","o","u","n","d">>}

\* C15: when page rendering throws a not-found signal the status is 404 from
\* the catch clause on; the registered not-found route ('/404' or
\* '/not-found') is compiled and rendered when there is one, and whether
\* that succeeds or fails the handler goes on to send, with the rendered
\* component or with the literal 404 page; without such a route the body is
\* the literal page; the response is 404 with that body, never an overlay.
C15_NotFoundIs404 ==
    /\ [][\A r \in Reqs :
            (ThrewNotFound(r) /\ req'[r].pc # req[r].pc) =>
                /\ req[r].pc = "pageResume" =>
                      /\ req'[r].statusCode = 404
                      /\ ~req'[r].response.sent
                      /\ IF NotFoundRegistered(req[r].allRoutes)
                         THEN req'[r].pc = "notFoundPage"
                         ELSE req'[r].pc = "send" /\ req'[r].pageHTML = "literal404"
                /\ req[r].pc = "notFoundPage" =>
                      /\ req'[r].pc = "send"
                      /\ req'[r].statusCode = 404
                      /\ ~req'[r].response.sent
                      /\ req'[r].pageHTML \in {"notFoundPage", "literal404"}
                /\ req[r].pc = "send" =>
                      /\ req'[r].pc = "done"
                      /\ req'[r].response =
                            Response(404, Undefined, req[r].pageHTML)]_vars
    /\ [](\A r \in Reqs :
            (ThrewNotFound(r) /\ Done(r)) =>
                /\ req[r].response.status = 404
                /\ req[r].response.body \in {"notFoundPage", "literal404"}
                /\ req[r].response.body = "notFoundPage"
                      => NotFoundRegistered(req[r].allRoutes))

\* a page threw the not-found signal, the project's not-found page failed
\* to render and the literal page went out with status 404
C15_Witness ==
    /\ Done("r1") /\ ThrewNotFound("r1")
    /\ NotFoundRegistered(req["r1"].allRoutes)
    /\ req["r1"].response = Response(404, Undefined, "literal404")

\* C16: when the bundler fails on the page of a request, the response is the
\* 500 overlay of the bundling error, the page's module is never required
\* and renderToString is never invoked for the request.
C16_CompileFailureIs500 ==
    \A r \in Reqs :
        req[r].bundle = "failed" =>
            /\ Done(r)
            /\ req[r].response = Response(500, Undefined, "overlay")
            /\ ~req[r].required
            /\ req[r].renderCalls = 0

\* C17: a redirect signal or a not-found signal thrown during page rendering
\* is never logged as an error, wherever the request is in the handling of
\* the signal: no console.error is called for the request.
C17_SignalsNotLogged ==
    \A r \in Reqs :
        (req[r].thrown.kind \in {"redirect", "notFound"}) => ~req[r].errorLogged

StagesOf(r) == {req[r].stages[i] : i \in 1..Len(req[r].stages)}
Handling(r) ==
    req[r].pc \in {"api", "pageCompile", "pageEval", "pageResume", "notFoundPage",
                   "errorPage", "send"}

\* C18: within one request the middleware function is invoked at most once
\* and has returned, with its result awaited, before the tables are matched
\* against; the matching is over before an API handler or a page's body is
\* invoked; the stages entered are, in this order, MIDDLEWARE (when the
\* project has one), ROUTE_MATCH and then HANDLE or RENDER.
C18_StagesInOrder ==
    \A r \in Reqs :
        /\ req[r].stages \in
              { <<>>, <<"MIDDLEWARE">>, <<"MIDDLEWARE", "ROUTE_MATCH">>,
                <<"MIDDLEWARE", "ROUTE_MATCH", "HANDLE">>,
                <<"MIDDLEWARE", "ROUTE_MATCH", "RENDER">>,
                <<"ROUTE_MATCH">>, <<"ROUTE_MATCH", "HANDLE">>,
                <<"ROUTE_MATCH", "RENDER">> }
        /\ req[r].pc \in {"new", "middleware"} => req[r].stages = <<>>
        /\ req[r].pc = "dispatch" => StagesOf(r) \subseteq {"MIDDLEWARE"}
        /\ Handling(r) => "ROUTE_MATCH" \in StagesOf(r)
        /\ req[r].handler = "none" => StagesOf(r) \subseteq {"MIDDLEWARE"}

\* the middleware let the request pass, the tables were matched against and
\* the page's body ran
C18_Witness ==
    /\ req["r1"].stages = <<"MIDDLEWARE", "ROUTE_MATCH", "RENDER">>
    /\ Done("r1") /\ req["r1"].response.sent

\* C19: when the API module of a request exports both a function named as
\* the request's method and a default function, the export that is invoked
\* is the method-named one.
C19_MethodExportPreferred ==
    \A r \in Reqs :
        ( /\ req[r].apiModule.loaded
          /\ req[r].apiModule.hasDefault /\ req[r].apiModule.hasMethod )
        => req[r].invoked = "method"

\* the locale token a language tag begins with, Undefined when it begins
\* with none
LeadingLocaleToken(tag) ==
    IF Len(tag) >= 5 /\ IsLocaleToken(SubSeq(tag, 1, 5)) THEN SubSeq(tag, 1, 5)
    ELSE IF Len(tag) >= 2 /\ IsLocaleToken(SubSeq(tag, 1, 2)) THEN SubSeq(tag, 1, 2)
    ELSE Undefined

\* C20: the locale of a request is the first segment of its path when that
\* is a locale token; otherwise the value of the locale cookie when the
\* request carries one that is not empty; otherwise the locale token the
\* first tag of the Accept-Language header begins with, when there is a
\* header and its first tag begins with one; otherwise 'en-US'.  A source
\* of lower priority never overrides one of higher priority.
C20_LocalePriority ==
    \A r \in Reqs :
        req[r].pc # "new" =>
            LET segs == Segments(RawPath(req[r].url))
                cookie == req[r].cookieLang
                header == req[r].acceptLanguage
                tag == IF header \in {Undefined, <<>>} THEN <<>>
                       ELSE Trim(Split(header, ",")[1])
            IN  req[r].locale =
                  IF segs # <<>> /\ IsLocaleToken(segs[1]) THEN segs[1]
                  ELSE IF cookie \notin {Undefined, <<>>} THEN cookie
                  ELSE IF LeadingLocaleToken(tag) # Undefined THEN LeadingLocaleToken(tag)
                  ELSE <<"e","n","-","U","S">>

\* '/en/about' came with the cookie 'id' and a French Accept-Language
\* header: the locale is the path's
C20_Witness ==
    /\ req["r1"].url = <<"/","e","n","/","a","b","o","u","t">>
    /\ req["r1"].cookieLang = <<"i","d">>
    /\ req["r1"].acceptLanguage = <<" ","f","r","-","F","R",",","f","r",";","q","=","0",".","9">>
    /\ req["r1"].locale = <<"e","n">>
    /\ Done("r1")

(***************************************************************************)
(* Further claims about the locale prefix and the matcher                  *)
(***************************************************************************)
\* C21: for every path without query whose first segment is a locale token
\* L and which has a segment after it, '/' + L + stripLocaleFromPath(p) is p
\* again.
C21_StripRoundTrip ==
    ( /\ fnInput.fn = "stripLocaleFromPath" /\ ~fnInput.stripped
      /\ fnOutput.kind = "string"
      /\ ~Includes(fnInput.pathname, "?")
      /\ Len(Segments(fnInput.pathname)) >= 2
      /\ IsLocaleToken(Segments(fnInput.pathname)[1]) )
    => <<"/">> \o Segments(fnInput.pathname)[1] \o fnOutput.value = fnInput.pathname

\* C22: a route without a catch-all segment, static or dynamic, of either
\* table, matches a path only if the two have the same number of segments
\* and every pattern segment that does not start with ':' equals the path's
\* segment at its position.
C22_SameSegments ==
    ( /\ MatchCalled /\ fnOutput.kind = "match"
      /\ ~Includes(fnOutput.route.path, "*") )
    => LET pat == Segments(fnOutput.route.path)
           segs == Segments(fnInput.pathname)
       IN  /\ Len(segs) = Len(pat)
           /\ \A i \in 1..Len(pat) :
                 pat[i][1] # ":" => (i <= Len(segs) /\ segs[i] = pat[i])

\* two outcomes of matchRoute are the same: both null, both the TypeError,
\* or the same route of the table with the same params
SameOutcome(a, b) ==
    /\ a.kind = b.kind
    /\ a.kind = "match" => (a.index = b.index /\ a.params = b.params)

\* C23: the outcome of matchRoute depends on the non-empty '/'-separated
\* segments of the pathname only: every pathname with the same segments as
\* the one matched (a trailing or doubled slash more or less) has the same
\* outcome on the same table.
C23_SegmentsDecide ==
    MatchCalled =>
        \A other \in MatchPaths :
            Segments(other) = Segments(fnInput.pathname)
                => SameOutcome(MatchRoute(other, fnInput.routes), fnOutput)

(***************************************************************************)
(* Claims about the middleware, the API handler and the error pages        *)
(***************************************************************************)
\* C24: a middleware outcome other than pass-through ends the request: a
\* response the middleware returns that is not the pass-through is sent at
\* once, and when bundling, loading or calling the middleware throws, the
\* 500 overlay is sent; either way no table is matched against and no API
\* handler or page runs for the request.
C24_MiddlewareTerminal ==
    \A r \in Reqs :
        /\ req[r].middleware = "responded" =>
              /\ Done(r) /\ req[r].response.sent
              /\ req[r].handler = "none" /\ req[r].stages = <<"MIDDLEWARE">>
        /\ req[r].middleware = "threw" =>
              /\ Done(r) /\ req[r].response = Response(500, Undefined, "overlay")
              /\ req[r].handler = "none" /\ req[r].stages = <<"MIDDLEWARE">>

ApiCalled(r) == Done(r) /\ req[r].apiCall.called /\ req[r].apiCall.result # "throws"

\* C25 as stated: the function is tried in the two-argument convention
\* first, and whenever it left the response untouched the value it returned
\* is serialized and sent as in the return-a-value convention.
C25_FallsBackToReturnValue ==
    \A r \in Reqs :
        (ApiCalled(r) /\ ~req[r].apiCall.writes)
            => req[r].response = WebStyleResponse(req[r].apiCall.result)

\* C26: the value a handler called in the return-a-value convention returns
\* selects the response by the first rule that applies: a SatsetResponse is
\* sent as it is; an object with a numeric status and headers is adapted,
\* keeping its status; any other object is sent as JSON with status 200; a
\* string is sent as plain text with status 200; null and undefined give
\* the empty 204 response.
C26_ReturnValueRules ==
    \A r \in Reqs :
        (ApiCalled(r) /\ ~req[r].apiCall.nodeStyle) =>
            LET result == req[r].apiCall.result
            IN  /\ result = "satset" =>
                      req[r].response = Response(HandlerSatsetResponse.status, Undefined,
                                                 HandlerSatsetResponse.body)
                /\ result \in {"responseJson", "responseBare"} =>
                      req[r].response.status = ResponseLikeStatus
                /\ result = "object" => req[r].response = Response(200, Undefined, "json")
                /\ result = "string" => req[r].response = Response(200, Undefined, "text")
                /\ result \in {"null", "undefined"} =>
                      req[r].response = Response(204, Undefined, "none")

(***************************************************************************)
(* Further claims about the compilation cache                              *)
(***************************************************************************)
\* C27: in a resolution whose first compilation fails for lack of disk space
\* the artifact directory is wiped and the compiler is called a second time,
\* once, and the resolution fails when that call fails too; a first
\* compilation that fails otherwise is followed by no wipe and no second
\* call; no resolution calls the compiler more than twice.
C27_LowDiskRetry ==
    lastResolve.kind # "none" =>
        /\ lastResolve.compilerCalls <= 2
        /\ lastResolve.first = "ENOSPC" =>
              /\ lastResolve.wiped /\ lastResolve.compilerCalls = 2
              /\ lastResolve.ok <=> lastResolve.second = "ok"
        /\ lastResolve.first = "error" =>
              ~lastResolve.wiped /\ lastResolve.compilerCalls = 1 /\ ~lastResolve.ok
        /\ lastResolve.first = "ok" => ~lastResolve.wiped /\ lastResolve.compilerCalls <= 1

ThrewError(r) == req[r].thrown.kind = "error"

\* C28: for a render error that is no signal the error pages registered
\* under the candidate paths of its status are tried in their priority
\* order: the response carries the first of them that renders, and the
\* overlay is sent only when none of the registered candidates renders.
C28_ErrorPagesInOrder ==
    \A r \in Reqs :
        (ThrewError(r) /\ Done(r) /\ req[r].errorRoute # NoRoute.path) =>
            LET candidates == CandidatePaths(req[r].statusCode)
                Renders(i) ==
                    /\ \E k \in 1..Len(req[r].allRoutes) :
                          req[r].allRoutes[k].path = candidates[i]
                    /\ candidates[i] \in req[r].renderable
                good == {i \in 1..Len(candidates) : Renders(i)}
            IN  IF good = {}
                THEN req[r].response = Response(500, Undefined, "overlay")
                ELSE /\ req[r].response =
                           Response(req[r].statusCode, Undefined, "errorPage")
                     /\ \E i \in good :
                           /\ req[r].errorRoute = candidates[i]
                           /\ \A j \in good : i <= j

InErrorRange(field) == field.t = "number" /\ field.v >= 400 /\ field.v <= 599

\* C29: for a thrown value that is no signal, the classified status is the
\* error's statusCode when that is a number in 400..599, else its status
\* when statusCode is undefined and status is such a number, else its code
\* when both are undefined and code is such a number; it is 500 whenever
\* none of the three is a number in 400..599, and never anything but 500 or
\* one of these numbers; a response that carries a rendered error page has
\* the classified status.
C29_ClassifiedStatus ==
    \A r \in Reqs :
        (ThrewError(r) /\ req[r].pc \in {"errorPage", "send", "done"}) =>
            LET err == req[r].thrown
                classified == req[r].statusCode
            IN  /\ InErrorRange(err.statusCode) => classified = err.statusCode.v
                /\ (err.statusCode.t = "undefined" /\ InErrorRange(err.status))
                      => classified = err.status.v
                /\ ( /\ err.statusCode.t = "undefined" /\ err.status.t = "undefined"
                     /\ InErrorRange(err.code) ) => classified = err.code.v
                /\ ( /\ ~InErrorRange(err.statusCode) /\ ~InErrorRange(err.status)
                     /\ ~InErrorRange(err.code) ) => classified = 500
                /\ \/ classified = 500
                   \/ \E field \in {err.statusCode, err.status, err.code} :
                         InErrorRange(field) /\ classified = field.v
                /\ (Done(r) /\ req[r].response.body = "errorPage")
                      => req[r].response.status = classified

\* a page threw an error whose status is 503 and the project's error page
\* went out with status 503
C29_Witness ==
    /\ Done("r1")
    /\ req["r1"].thrown = Err(Undef, Num(503), Undef)
    /\ req["r1"].response = Response(503, Undefined, "errorPage")

(***************************************************************************)
(* The layouts of a page                                                   *)
(***************************************************************************)
\* extensions of findLayoutFiles, in the order they are tried
LayoutExtensions == << <<".","t","s","x">>, <<".","j","s","x">>, <<".","t","s">>, <<".","j","s">> >>

\* the layout of directory current: the first layout<ext> that exists, or
\* Undefined
LayoutPathIn(current, files) ==
    LET found == {i \in 1..Len(LayoutExtensions) :
                     PathJoin(current, <<"l","a","y","o","u","t">> \o LayoutExtensions[i]) \in files}
    IN  IF found = {} THEN Undefined
        ELSE PathJoin(current, <<"l","a","y","o","u","t">> \o
                 LayoutExtensions[CHOOSE i \in found : \A j \in found : i <= j])

\* the while loop of findLayoutFiles from directory current with the
\* results so far
RECURSIVE FindLayoutFilesFrom(_, _, _)
FindLayoutFilesFrom(current, results, files) ==
    IF ~StartsWith(current, Root) THEN results
    ELSE LET layoutPath == LayoutPathIn(current, files)
             unshifted ==
                 IF layoutPath # Undefined /\ \A i \in 1..Len(results) : results[i] # layoutPath
                 THEN <<layoutPath>> \o results
                 ELSE results
         IN  IF current = Root THEN unshifted
             ELSE FindLayoutFilesFrom(Dirname(current), unshifted, files)

\* findLayoutFiles(dir)
FindLayoutFiles(dir, files) == FindLayoutFilesFrom(dir, <<>>, files)

\* the loop "Wrap from inner to outer" from index i down to 0: an element is
\* written as the sequence of its components from the outermost to the page
RECURSIVE WrapLayouts(_, _, _)
WrapLayouts(layouts, i, appElement) ==
    IF i < 1 THEN appElement
    ELSE WrapLayouts(layouts, i - 1, <<layouts[i]>> \o appElement)

\* the layout files a project may hold, and the pages rendered
LayoutFilePool ==
    { <<"/","w","/","l","a","y","o","u","t",".","t","s","x">>, <<"/","w","/","s","r","c","/","l","a","y","o","u","t",".","t","s","x">>, <<"/","w","/","s","r","c","/","l","a","y","o","u","t",".","j","s">>,
      <<"/","w","/","s","r","c","/","p","a","g","e","s","/","l","a","y","o","u","t",".","j","s","x">>, <<"/","w","/","s","r","c","/","p","a","g","e","s","/","b","l","o","g","/","l","a","y","o","u","t",".","t","s","x">> }
LayoutPages ==
    { <<"/","w","/","s","r","c","/","i","n","d","e","x",".","t","s","x">>, <<"/","w","/","s","r","c","/","p","a","g","e","s","/","a","b","o","u","t",".","t","s","x">>, <<"/","w","/","s","r","c","/","p","a","g","e","s","/","b","l","o","g","/","p","o","s","t",".","t","s","x">> }

\* a page is rendered in a project whose layout files are files; those of
\* failing do not compile or throw when required, those of noExport export
\* no function
InitLayout ==
    /\ fnInput \in
          {i \in [fn : {"layouts"}, component : LayoutPages,
                  files : SUBSET LayoutFilePool, failing : SUBSET LayoutFilePool,
                  noExport : SUBSET LayoutFilePool] :
              /\ i.failing \subseteq i.files
              /\ i.noExport \subseteq i.files \ i.failing}
    /\ fnOutput = [kind |-> "notcalled"]
    /\ IdleCache /\ IdleServer

\* const layoutFiles = findLayoutFiles(pageDir)
CallFindLayoutFiles ==
    /\ fnInput.fn = "layouts"
    /\ fnOutput.kind = "notcalled"
    /\ fnOutput' = [kind |-> "loading", next |-> 1, layouts |-> <<>>,
                    layoutFiles |-> FindLayoutFiles(Dirname(fnInput.component), fnInput.files)]
    /\ UNCHANGED <<fnInput, cacheVars, serverVars>>

\* one turn of the loop over layoutFiles: the layout is bundled and
\* required and its component pushed; a throw leaves the loop for the catch
\* clause that warns
LoadLayout ==
    /\ fnInput.fn = "layouts"
    /\ fnOutput.kind = "loading"
    /\ fnOutput.next <= Len(fnOutput.layoutFiles)
    /\ LET layoutFile == fnOutput.layoutFiles[fnOutput.next]
       IN  fnOutput' =
              IF layoutFile \in fnInput.failing
              THEN [fnOutput EXCEPT !.kind = "loaded"]
              ELSE IF layoutFile \in fnInput.noExport
              THEN [fnOutput EXCEPT !.next = @ + 1]
              ELSE [fnOutput EXCEPT !.next = @ + 1, !.layouts = Append(@, layoutFile)]
    /\ UNCHANGED <<fnInput, cacheVars, serverVars>>

\* the loop over layoutFiles ends
LayoutsLoaded ==
    /\ fnInput.fn = "layouts"
    /\ fnOutput.kind = "loading"
    /\ fnOutput.next > Len(fnOutput.layoutFiles)
    /\ fnOutput' = [fnOutput EXCEPT !.kind = "loaded"]
    /\ UNCHANGED <<fnInput, cacheVars, serverVars>>

\* the page's node is wrapped in the layouts
WrapPage ==
    /\ fnInput.fn = "layouts"
    /\ fnOutput.kind = "loaded"
    /\ fnOutput' = [kind |-> "element", layoutFiles |-> fnOutput.layoutFiles,
                    appElement |-> WrapLayouts(fnOutput.layouts, Len(fnOutput.layouts),
                                               <<fnInput.component>>)]
    /\ UNCHANGED <<fnInput, cacheVars, serverVars>>

NextLayout == CallFindLayoutFiles \/ LoadLayout \/ LayoutsLoaded \/ WrapPage

SpecLayout == InitLayout /\ [][NextLayout]_vars

\* the directories from the root to the page's own
AncestorDirs(component) ==
    LET pageDir == Dirname(component)
    IN  {SubSeq(pageDir, 1, n) : n \in {m \in Len(Root)..Len(pageDir) :
                                          m = Len(pageDir) \/ pageDir[m + 1] = "/"}}

\* C30: the element rendered for a page ends in the page, and the layouts
\* around it are layout files of the directories from the root to the
\* page's own, one for every such directory that holds a layout file, a
\* directory nearer the root further out.
C30_LayoutsNestOuterToInner ==
    (fnInput.fn = "layouts" /\ fnOutput.kind = "element") =>
        LET appElement == fnOutput.appElement
            around == SubSeq(appElement, 1, Len(appElement) - 1)
            dirs == AncestorDirs(fnInput.component)
        IN  /\ appElement[Len(appElement)] = fnInput.component
            /\ \A i \in 1..Len(around) :
                  around[i] \in fnInput.files /\ Dirname(around[i]) \in dirs
            /\ \A d \in dirs :
                  (\E f \in fnInput.files : Dirname(f) = d)
                     => Cardinality({i \in 1..Len(around) : Dirname(around[i]) = d}) = 1
            /\ \A i, j \in 1..Len(around) :
                  i < j => Len(Dirname(around[i])) < Len(Dirname(around[j]))

\* the same, for projects whose layout files all compile and export a
\* component
C30_LoadableLayoutsNest ==
    (fnInput.fn = "layouts" /\ fnInput.failing = {} /\ fnInput.noExport = {})
        => C30_LayoutsNestOuterToInner

(***************************************************************************)
(* Further claims about route discovery                                    *)
(***************************************************************************)
\* the names of the '[[...name]]' directories and file of a project file
OptionalNames(f) ==
    {SliceBetween(f.dirs[i], 5, 2) :
        i \in {j \in 1..Len(f.dirs) : IsBracketed(f.dirs[j], <<"[","[",".",".",".">>, <<"]","]">>)}}
    \cup (IF IsBracketed(StripTsxJsx(f.file), <<"[","[",".",".",".">>, <<"]","]">>)
          THEN {SliceBetween(StripTsxJsx(f.file), 5, 2)} ELSE {})

MarkerFree(s) == \A i \in 1..Len(s) : s[i] \notin {"?", "[", "]", "."}

\* C31: after a discovery pass, every route of the two tables whose source
\* file is, or lies under, a '[[...name]]' entry has a path with the
\* segment '*name', has none of the characters '?', '[', ']' and '.' in its
\* path or in its params, and has catchAllOptional = true.
C31_OptionalCatchAllDiscovered ==
    ScanReturned =>
        \A route \in RoutesFound : \A i \in 1..Len(fnInput.files) :
            LET f == fnInput.files[i]
                pat == Segments(route.path)
            IN  route.component = FullPath(f) =>
                    \A name \in OptionalNames(f) :
                        /\ \E k \in 1..Len(pat) : pat[k] = <<"*">> \o name
                        /\ MarkerFree(route.path)
                        /\ \A k \in 1..Len(route.params.names) :
                              MarkerFree(route.params.names[k])
                        /\ route.catchAllOptional

\* the same for the page.tsx files of the page table alone
C31_PageFilesOnly ==
    ScanReturned =>
        \A i \in 1..Len(fnInput.files) :
            (fnInput.files[i].file \in PageFileNames
                /\ <<"a","p","i">> \notin {fnInput.files[i].dirs[j] : j \in 1..Len(fnInput.files[i].dirs)}
                /\ Cardinality({j \in 1..Len(fnInput.files[i].dirs) :
                       IsBracketed(fnInput.files[i].dirs[j], <<"[","[",".",".",".">>, <<"]","]">>)}) <= 1)
            => \A route \in {fnOutput.routes[k] : k \in 1..Len(fnOutput.routes)} :
                  LET f == fnInput.files[i]
                      pat == Segments(route.path)
                  IN  route.component = FullPath(f) =>
                        \A name \in OptionalNames(f) :
                            /\ \E k \in 1..Len(pat) : pat[k] = <<"*">> \o name
                            /\ MarkerFree(route.path)
                            /\ route.catchAllOptional

(***************************************************************************)
(* Claims about concurrent requests                                        *)
(***************************************************************************)
\* in this step code of the project runs for request r: its middleware
\* function, its API handler or the body of its page
UserCodeRuns(r) ==
    /\ Len(req'[r].stages) = Len(req[r].stages) + 1
    /\ req'[r].stages[Len(req'[r].stages)] \in {"MIDDLEWARE", "HANDLE", "RENDER"}

\* C32: whatever the interleaving of the requests, when code of the project
\* runs for a request the cookie store that cookies() reads holds the
\* cookies of that request: not those of another request and not the null
\* left by the end of another request.
C32_OwnCookieStore ==
    [][\A r \in Reqs : UserCodeRuns(r) => currentRequestCookies.owner = r]_vars

(***************************************************************************)
(* Concurrent resolution of modules (server/dev.ts): two requests resolve  *)
(* the module of their route.  A handler advances one step per await; the  *)
(* bundler writes its outfile before the promise of bundleServer resolves, *)
(* and the write of one outfile is taken as one step.                      *)
(***************************************************************************)
\* the modules a route's handler resolves: pages and API handlers
RoutedModules == {m \in CacheModules : m.kind \in {"page", "api"}}
RoutedProjects == {{m1, m2} : m1, m2 \in RoutedModules}

\* a request that has not yet reached its handler
IdleResolver ==
    [pc |-> "idle", kind |-> "none", source |-> NoSource, artifact |-> NoSource,
     compilerCalls |-> 0, failures |-> 0, loaded |-> NoSource, response |-> "none"]

\* the server is running: every artifact of the project is absent (0), older
\* than its source (1) or as new as it (2), and holds what an earlier
\* request compiled to its path
InitCompile ==
    /\ clock = MaxClock
    /\ \E project \in RoutedProjects :
          LET artifacts == {ArtifactPath(m.kind, m.source) : m \in project}
              SourcesOf(a) == {m.source : m \in {n \in project : ArtifactPath(n.kind, n.source) = a}}
          IN  \E age \in [artifacts -> 0..2] :
              \E from \in {f \in [artifacts -> SourceFiles(project)] :
                              \A a \in artifacts : f[a] \in SourcesOf(a)} :
                 /\ fsMTime = [file \in SourceFiles(project) \cup artifacts |->
                                  IF file \in artifacts THEN age[file] ELSE 2]
                 /\ compiledFrom = [a \in artifacts |->
                                       IF age[a] = 0 THEN NoSource ELSE from[a]]
    /\ lastResolve = [kind |-> "none"]
    /\ routes = <<>> /\ apiRoutes = <<>> /\ scans = 0
    /\ currentRequestCookies = <<>> /\ requestContext = <<>>
    /\ req = [r \in Reqs |-> IdleResolver]
    /\ IdleFn

\* delete require.cache[...]; require(artifact), and the response that
\* follows: the module's response, or the 500 of the catch clause when the
\* file is not there
Require(rec, fs, from) ==
    IF ExistsSync(fs, rec.artifact)
    THEN [rec EXCEPT !.pc = "done", !.loaded = from[rec.artifact], !.response = "handled"]
    ELSE [rec EXCEPT !.pc = "done", !.response = "500"]

\* handleApiRoute or handlePageRoute of request r, matched to the route of
\* module m, up to the await of the bundler; an API module whose artifact
\* is fresh is required without an await
ResolveBegins(r, m) ==
    /\ req[r].pc = "idle"
    /\ LET artifact == ArtifactPath(m.kind, m.source)
           rec == [req[r] EXCEPT !.kind = m.kind, !.source = m.source,
                                 !.artifact = artifact]
       IN  req' = [req EXCEPT ![r] =
                     IF NeedsBundle(m.kind, fsMTime, m.source, artifact)
                     THEN [rec EXCEPT !.pc = "bundling", !.compilerCalls = 1]
                     ELSE Require(rec, fsMTime, compiledFrom)]
    /\ UNCHANGED <<cacheVars, fnVars, routes, apiRoutes, scans,
                   currentRequestCookies, requestContext>>

\* the bundler call of request r ends.  "ok": the outfile is written.
\* "error": the handler's catch clause answers 500.  "ENOSPC" on the first
\* call: safeBundleApi or safeBundleServer removes and recreates the temp
\* directory and calls the bundler again; on the second call it is an error.
BundlerReturns(r, outcome) ==
    /\ req[r].pc = "bundling"
    /\ LET rec == req[r]
           retry == outcome = "ENOSPC" /\ rec.compilerCalls = 1 /\ HasLowDiskRetry(rec.kind)
       IN  CASE outcome = "ok" ->
                 /\ fsMTime' = [fsMTime EXCEPT ![rec.artifact] = clock]
                 /\ compiledFrom' = [compiledFrom EXCEPT ![rec.artifact] = rec.source]
                 /\ req' = [req EXCEPT ![r] = [rec EXCEPT !.pc = "written"]]
             [] retry ->
                 /\ fsMTime' = WipeTempDir(fsMTime)
                 /\ compiledFrom' = WipeProvenance(compiledFrom)
                 /\ req' = [req EXCEPT ![r] = [rec EXCEPT !.compilerCalls = 2,
                                                          !.failures = @ + 1]]
             [] OTHER ->
                 /\ req' = [req EXCEPT ![r] = [rec EXCEPT !.pc = "done",
                                                          !.failures = @ + 1,
                                                          !.response = "500"]]
                 /\ UNCHANGED <<fsMTime, compiledFrom>>
    /\ UNCHANGED <<clock, lastResolve, fnVars, routes, apiRoutes, scans,
                   currentRequestCookies, requestContext>>

\* a handler that removes the artifact once it has required it
RequireArtifactAndRemove(r) ==
    /\ req[r].pc = "written"
    /\ req' = [req EXCEPT ![r] = Require(req[r], fsMTime, compiledFrom)]
    /\ fsMTime' = [fsMTime EXCEPT ![req[r].artifact] = 0]
    /\ compiledFrom' = [compiledFrom EXCEPT ![req[r].artifact] = NoSource]
    /\ UNCHANGED <<clock, lastResolve, fnVars, routes, apiRoutes, scans,
                   currentRequestCookies, requestContext>>


\* the handler of request r resumes after the bundler's promise resolved
RequireArtifact(r) ==
    /\ req[r].pc = "written"
    /\ req' = [req EXCEPT ![r] = Require(req[r], fsMTime, compiledFrom)]
    /\ UNCHANGED <<cacheVars, fnVars, routes, apiRoutes, scans,
                   currentRequestCookies, requestContext>>

NextCompile ==
    \/ \E r \in Reqs, m \in ProjectModules : ResolveBegins(r, m)
    \/ \E r \in Reqs, outcome \in {"ok", "ENOSPC", "error"} : BundlerReturns(r, outcome)
    \/ \E r \in Reqs : RequireArtifact(r)

SpecCompile == InitCompile /\ [][NextCompile]_vars

C34_OwnModuleLoaded ==
    \A r \in Reqs :
        (req[r].pc = "done" /\ req[r].response = "handled")
            => req[r].loaded = req[r].source

(***************************************************************************)
(* Claims about the response of a request                                  *)
(***************************************************************************)
\* C35: no path through the middleware, the API handler or the page handler
\* ends without a response: once the handler of a request that reached the
\* dispatcher has returned, a response has been sent.
C35_HandlerEndsAnswered ==
    \A r \in Reqs : (Dispatched(r) /\ Done(r)) => req[r].response.sent

\* the dispatcher found no API route and no page route for the path of
\* request r: it answered itself, or entered the project's not-found page
NoRouteMatched(r) ==
    \/ req[r].handler = "404"
    \/ /\ req[r].handler = "page"
       /\ MatchRoute(req[r].effectivePath, req[r].allRoutes).kind # "match"

\* C36: a request whose path matches no API route and no page route is
\* answered with status 404, with or without a registered not-found page.
C36_UnmatchedIs404 ==
    \A r \in Reqs :
        (Done(r) /\ NoRouteMatched(r) /\ req[r].response.sent)
            => req[r].response.status = 404

\* the same for projects without a not-found page
C36_UnmatchedWithoutPageIs404 ==
    \A r \in Reqs :
        (Done(r) /\ req[r].handler = "404")
            => req[r].response = Response(404, Undefined, "literal404")

(***************************************************************************)
(* A discovered page requested at its own path                             *)
(***************************************************************************)
\* the projects of one file, and three whose page lies at or under a name
\* of two letters
ReachProjects ==
    OneFileProjects
        \cup { <<ProjectFile(<<"p","a","g","e","s">>, <<>>, <<"i","d",".","t","s","x">>)>>,
               <<ProjectFile(<<"a","p","p">>, << <<"e","n">> >>, <<"p","a","g","e",".","t","s","x">>)>>,
               <<ProjectFile(<<"p","a","g","e","s">>, << <<"e","n">> >>, <<"a","b","o","u","t",".","t","s","x">>)>> }

InitReach ==
    /\ fnInput \in [fn : {"getRoutes"}, files : ReachProjects]
    /\ fnOutput = [kind |-> "notcalled"]
    /\ IdleCache /\ IdleServer

\* the request handler from the locale detection to the dispatcher, for a
\* request without locale cookie or header whose url is the path of the one
\* static page discovery found
RequestOwnPath ==
    /\ fnInput.fn = "getRoutes"
    /\ fnOutput.kind = "tables"
    /\ Len(fnOutput.routes) = 1 /\ fnOutput.apiRoutes = <<>>
    /\ ~fnOutput.routes[1].dynamic
    /\ LET detected == DetectLocale(RawPath(fnOutput.routes[1].path), Undefined, Undefined)
       IN  fnOutput' = [kind |-> "dispatched", routes |-> fnOutput.routes,
                        effectivePath |-> detected.effectivePath,
                        target |-> RouteRequest(detected.effectivePath,
                                                fnOutput.apiRoutes, fnOutput.routes)]
    /\ UNCHANGED <<fnInput, cacheVars, serverVars>>

NextReach == NextScan \/ RequestOwnPath

SpecReach == InitReach /\ [][NextReach]_vars

\* C37: a request for the path of a discovered static page, the only route
\* of the table, is dispatched to that page.
C37_OwnPathReachesPage ==
    (fnInput.fn = "getRoutes" /\ fnOutput.kind = "dispatched") =>
        /\ fnOutput.target.handler = "page"
        /\ fnOutput.target.route = fnOutput.routes[1]

\* the same for the pages whose path does not begin with a locale token and
\* holds no '?'
C37_NoLocaleLikeSegment ==
    ( /\ fnInput.fn = "getRoutes" /\ fnOutput.kind = "dispatched"
      /\ ~Includes(fnOutput.routes[1].path, "?")
      /\ \A i \in 1..Len(Segments(fnOutput.routes[1].path)) :
            i = 1 => ~IsLocaleToken(Segments(fnOutput.routes[1].path)[i]) )
    => C37_OwnPathReachesPage

DistinctComponents(table) ==
    \A i, j \in 1..Len(table) : i # j => table[i].component # table[j].component

\* C38: after a discovery pass no two routes of the page table and no two
\* routes of the API table have the same component.
C38_NoFileTwice ==
    ScanReturned =>
        DistinctComponents(fnOutput.routes) /\ DistinctComponents(fnOutput.apiRoutes)

\* the same for the page table alone
C38_NoPageTwice == ScanReturned => DistinctComponents(fnOutput.routes)

(***************************************************************************)
(* The client's matcher (matchPath of the entry that buildClientBundle     *)
(* writes) beside the server's matchRoute                                  *)
(***************************************************************************)
\* stripLocale of the entry: the text of stripLocaleFromPath
StripLocale(pathname) == StripLocaleFromPath(pathname)

\* what matchPath returns: a component (undefined when the fallback finds no
\* root route) and params
ClientMatch(component, params) ==
    [kind |-> "component", component |-> component, params |-> params]

\* the loop of matchPath over the segments of a route without '*', from
\* 0-based index i on
RECURSIVE ClientBind(_, _, _, _)
ClientBind(routeSegments, pathSegments, i, params) ==
    IF i >= Len(routeSegments)
    THEN Params(params)
    ELSE LET rs == routeSegments[i + 1]
             ps == pathSegments[i + 1]
         IN  IF StartsWith(rs, <<":">>)
             THEN ClientBind(routeSegments, pathSegments, i + 1,
                             SetParam(params, Slice(rs, 1), ps))
             ELSE IF rs # ps THEN NoMatch
                  ELSE ClientBind(routeSegments, pathSegments, i + 1, params)

\* the loop of matchPath over routeDefs from 1-based position i on, and the
\* fallback to the root route after it
RECURSIVE MatchPathFrom(_, _, _)
MatchPathFrom(pathSegments, routeDefs, i) ==
    IF i > Len(routeDefs)
    THEN IF \E k \in 1..Len(routeDefs) : routeDefs[k].path = <<"/">>
         THEN ClientMatch(routeDefs[CHOOSE k \in 1..Len(routeDefs) :
                              /\ routeDefs[k].path = <<"/">>
                              /\ \A j \in 1..(k - 1) : routeDefs[j].path # <<"/">>].component,
                          {})
         ELSE ClientMatch(Undefined, {})
    ELSE LET r == routeDefs[i]
             routeSegments == FilterBoolean(Split(r.path, "/"))
         IN  IF Includes(r.path, "*")
             THEN LET catchIndex == FindCatchAllIndex(routeSegments)
                  IN  IF catchIndex = -1
                      THEN Thrown
                      ELSE ClientMatch(r.component,
                              SetParam({}, Slice(routeSegments[catchIndex + 1], 1),
                                       Join(ArraySlice(pathSegments, catchIndex), "/")))
             ELSE IF Len(routeSegments) # Len(pathSegments)
             THEN MatchPathFrom(pathSegments, routeDefs, i + 1)
             ELSE LET bound == ClientBind(routeSegments, pathSegments, 0, {})
                  IN  IF bound.kind = "params"
                      THEN ClientMatch(r.component, bound.params)
                      ELSE MatchPathFrom(pathSegments, routeDefs, i + 1)

\* matchPath(pathname)
MatchPath(pathname, routeDefs) ==
    MatchPathFrom(FilterBoolean(Split(StripLocale(pathname), "/")), routeDefs, 1)

\* the page tables the entry is written for
PageTables ==
    {t \in RouteTables : \A i \in 1..Len(t) : ~StartsWith(t[i].path, <<"/","a","p","i">>)}

InitClient ==
    /\ fnInput \in [fn : {"matchPath"}, pathname : MatchPaths, routes : PageTables]
    /\ fnOutput = [kind |-> "notcalled"]
    /\ IdleCache /\ IdleServer

\* the browser runs matchPath(pathname)
CallMatchPath ==
    /\ fnInput.fn = "matchPath"
    /\ fnOutput.kind = "notcalled"
    /\ fnOutput' = [kind |-> "client", client |-> MatchPath(fnInput.pathname, fnInput.routes)]
    /\ UNCHANGED <<fnInput, cacheVars, serverVars>>

\* the server runs matchRoute(pathname, routes) for the same path and table
CallMatchRouteToo ==
    /\ fnInput.fn = "matchPath"
    /\ fnOutput.kind = "client"
    /\ fnOutput' = [kind |-> "both", client |-> fnOutput.client,
                    server |-> MatchRoute(fnInput.pathname, fnInput.routes)]
    /\ UNCHANGED <<fnInput, cacheVars, serverVars>>

NextClient == CallMatchPath \/ CallMatchRouteToo

SpecClient == InitClient /\ [][NextClient]_vars

\* C39: for every page table and every path, matchPath selects the
\* component of the route matchRoute selects, with the same params, and no
\* component when matchRoute selects none.
C39_ClientMatchesServer ==
    (fnInput.fn = "matchPath" /\ fnOutput.kind = "both") =>
        IF fnOutput.server.kind = "match"
        THEN /\ fnOutput.client.kind = "component"
             /\ fnOutput.client.component = fnOutput.server.route.component
             /\ fnOutput.client.params = fnOutput.server.params
        ELSE IF fnOutput.server.kind = "null"
        THEN fnOutput.client.kind = "component" /\ fnOutput.client.component = Undefined
        ELSE fnOutput.client.kind = fnOutput.server.kind

====
